---------------------------- MODULE Spec2Model ----------------------------
(***************************************************************************)
(* A model of saws (lvstb/saws): the credential-acquisition pipeline.      *)
(*                                                                         *)
(*   - profile naming   (internal/ui: SuggestProfileName,                  *)
(*                        GenerateUniqueProfileNames)                      *)
(*   - the SSO token cache (internal/config: WriteSSOCache, ReadSSOCache)  *)
(*   - the device-authorization flow (internal/auth: Authenticate,         *)
(*                        pollForToken)                                    *)
(*   - the pipeline (main: run, runDiscoveryFlow) with the paginated       *)
(*     catalog calls (internal/credentials: ListAccounts,                  *)
(*     ListAccountRoles) and the errgroup fan-out                          *)
(*   - the profile store (internal/config: LoadProfiles, SaveProfiles)     *)
(*   - the shell wrapper (internal/shell: Install)                         *)
(*   - the selectors (internal/ui: selectorModel, importModel)             *)
(*                                                                         *)
(* Each part has its own specification (SpecNames, SpecCache, SpecAuth,    *)
(* SpecRun, SpecDiscovery for the fan-out over larger catalogs, SpecStore, *)
(* SpecShell, SpecSelector) over one set of variables; the variables of    *)
(* the other parts stay at their idle values.                              *)
(*                                                                         *)
(* Strings are sequences of one-character strings, so that lower-casing,   *)
(* the replacement of spaces and the "%s-%d" formatting are computed.      *)
(***************************************************************************)
EXTENDS Integers, Sequences, FiniteSets, TLC

VARIABLES
    \* ---- naming (SpecNames) ----
    batch,        \* the []profile.SSOProfile handed to GenerateUniqueProfileNames
    names,        \* the []string it returned
    npc,          \* "input" | "done"
    \* ---- token cache (SpecCache) ----
    files,        \* the files of ~/.aws/sso/cache: path -> content
    clock,        \* time.Now(), in ticks
    wr,           \* the last WriteSSOCache call: [url, region, token, exp, st,
                  \* over], st "none" | "open" (file truncated, not written
                  \* yet) | "ok" | "err"; over: the file it opened held the
                  \* token of an earlier write with another access token
    lastRead,     \* the ReadSSOCache call that just returned: [url, at, token]
    \* ---- device authorization (SpecAuth) ----
    apc,          \* where Authenticate is: "Register" | "StartAuth" | "Notify" |
                  \* "InFlight" (in CreateToken) | "Select" (in the select of
                  \* pollForToken) | "Done" (returned)
    oidc,         \* calls made so far: [register, startAuth, callback, browser, createToken]
                  \* and launch, what openBrowser returned ("none" before the call)
    interval,     \* deviceOut.Interval, then interval of Authenticate, in seconds
    ticker,       \* the time.Ticker: [period, next, buf] (buf: a tick waits in ticker.C)
    timeoutBuf,   \* the time.After channel holds its value
    cancelled,    \* ctx.Done() is closed
    elapsed,      \* seconds since pollForToken was entered
    srv,          \* the answers of the token endpoint: [at, kind, slow, last];
                  \* at, kind: the first answer that was not "pending" (at = 0
                  \* while there is none); slow: the "slow down" answers, counted
                  \* up to 2; last: the last answer
    lateCalls,    \* CreateToken calls started after [cancel, timeout] had fired,
                  \* and at: the time the last CreateToken call was started
    result,       \* what Authenticate returned: [kind, token, expiresAt, err]
    \* ---- the pipeline (SpecRun, SpecDiscovery) ----
    rpc,          \* where run is: "resolve" | "cache" | "form" | "auth" | "write" |
                  \* "fetch" | "accounts" | "fanout" | "wait" | "import" | "done"
    flow,         \* "profile" (a saved profile is used) | "discovery" | "none"
    conn,         \* start URL and region of the profile or of the connection form
    token,        \* the *auth.TokenResult in hand: [AccessToken, ExpiresAt, src]
    authLog,      \* Authenticate calls: [starts, cached, run, wrote]; starts
                  \* counts the calls of this run, cached the calls made while
                  \* ReadSSOCache had a token for the start URL, run the
                  \* invocations of the program, wrote is the last successful
                  \* WriteSSOCache after an Authenticate: [url, token, exp, run]
                  \* (None again once a later write has emptied that file)
    warned,       \* the "could not write SSO cache" warning was printed
    provider,     \* what the SSO catalog holds for the user: the number of accounts
    accounts,     \* ListAccounts: the accounts accumulated so far
    page,         \* ListAccounts: the page asked for next
    next,         \* runDiscoveryFlow: the index of the range loop over the accounts
    g,            \* the goroutines of the errgroup, per account index:
                  \* [st: "idle" | "req" | "done" | "failed", acct, page, roles,
                  \* reqs, overtook]; reqs counts the requests sent, overtook
                  \* tells that it finished while an earlier one was in flight
    gerr,         \* errgroup: the first error: [acct, started], acct = 0 for none;
                  \* gctx is cancelled exactly when acct # 0
    results,      \* results[i] = [account, roles]
    allProfiles,  \* the named profiles handed to the import selector
    store,        \* ~/.aws/config: section name -> (key -> value)
    out,          \* how run ended: [err, saved, exported], with export (the
                  \* --export flag) and what was written to stdout and stderr
    \* ---- the shell wrapper and the selectors (SpecShell, SpecSelector) ----
    rc,           \* the shell's rc file and the Install calls made on it:
                  \* [content, orig, installs, last]
    sel           \* the model of the running selector (bubbletea's Update)

nameVars == <<batch, names, npc>>
cacheVars == <<files, clock, wr, lastRead>>
authVars == <<apc, oidc, interval, ticker, timeoutBuf, cancelled, elapsed,
              srv, lateCalls, result>>

discVars == <<provider, accounts, page, next, g, gerr, results, allProfiles>>
runVars == <<rpc, flow, conn, token, authLog, warned, discVars, store, out>>

toolVars == <<rc, sel>>

vars == <<nameVars, cacheVars, authVars, runVars, toolVars>>

\* What the actions of one part leave alone: the variables of the other parts.
offNames == <<cacheVars, authVars, runVars, toolVars>>
offCache == <<nameVars, authVars, runVars, toolVars>>
offAuth == <<nameVars, cacheVars, runVars, toolVars>>
offRun == <<nameVars, authVars, wr, lastRead, toolVars>>
offTools == <<nameVars, cacheVars, authVars, runVars>>

\* The absent value (a nil pointer); a record, as every present value is one.
None == [none |-> TRUE]

(***************************************************************************)
(* Bounds of the model.                                                    *)
(***************************************************************************)
\* Longest batch of profiles whose names are generated in SpecNames.
MaxBatch == 3
\* Resolution of the clock: ticks per second (time.Time is finer than the
\* second that RFC3339 keeps).
TicksPerSec == 3
\* Last tick of the clock in SpecCache.
MaxClock == 2
\* The absolute timeout of pollForToken, in seconds.  The source waits
\* 5*time.Minute; the model shortens the wait so that the clock of SpecAuth
\* stays small.  It is longer than the widest poll interval (5s + 5s).
PollTimeout == 12
\* Last second of SpecAuth's clock: polling may go on after the timeout fired.
MaxElapsed == 14
\* Most accounts the catalog holds in SpecDiscovery (one more than the
\* limit of the errgroup), and in SpecRun.
MaxAccounts == 6
RunAccounts == 2
\* Items per page of ListAccounts and of ListAccountRoles.
AccountPageSize == 4
RolePageSize == 2
\* Invocations of the program in SpecRun.
MaxRuns == 2

\* The rc file before the first Install has at most MaxRcLen pieces, and at
\* most MaxInstalls Install calls are made on it.
MaxRcLen == 3
MaxInstalls == 3

\* The filter text of a selector is at most MaxFilter characters long.
MaxFilter == 2

(***************************************************************************)
(* Constants of the program.                                               *)
(***************************************************************************)
\* The expiry buffer of ReadSSOCache: 5*time.Minute.
BufferMinutes == 5
CacheBuffer == BufferMinutes * 60 * TicksPerSec
\* Authenticate: the poll interval used when the server names none (seconds).
DefaultInterval == 5
\* pollForToken: what a SlowDownException adds to the interval (seconds).
SlowDownPenalty == 5
\* runDiscoveryFlow: g.SetLimit(5).
FetchLimit == 5

(***************************************************************************)
(* Strings.                                                                *)
(***************************************************************************)
\* strings.ToLower on one character (the alphabet of the model's names).
ToLowerCh(c) ==
    CASE c = "A" -> "a"
      [] c = "B" -> "b"
      [] c = "C" -> "c"
      [] c = "D" -> "d"
      [] c = "P" -> "p"
      [] c = "R" -> "r"
      [] OTHER   -> c

\* strings.ToLower
ToLower(s) == [i \in 1..Len(s) |-> ToLowerCh(s[i])]

\* The spaces stay.
ReplaceSpacesKept(s) == s

\* strings.ReplaceAll(s, " ", "-")
ReplaceSpaces(s) == [i \in 1..Len(s) |-> IF s[i] = " " THEN "-" ELSE s[i]]

\* One decimal digit as a character.
Digit(d) == <<"0", "1", "2", "3", "4", "5", "6", "7", "8", "9">>[d + 1]

\* fmt's %d for a non-negative integer.
RECURSIVE Itoa(_)
Itoa(n) == IF n < 10 THEN <<Digit(n)>> ELSE Itoa(n \div 10) \o <<Digit(n % 10)>>

(***************************************************************************)
(* internal/ui: profile naming.                                            *)
(***************************************************************************)
SuggestProfileName(accountName, roleName) ==
    LET name == IF accountName = <<>> THEN <<"a", "w", "s">> ELSE accountName
        lowered == ToLower(ReplaceSpaces(name))
        role == ToLower(ReplaceSpaces(roleName))
    IN  lowered \o <<"-">> \o role

\* First pass of GenerateUniqueProfileNames: baseNames[i].
BaseNames(profiles) ==
    [i \in 1..Len(profiles) |->
        SuggestProfileName(profiles[i].AccountName, profiles[i].RoleName)]

\* counts[base] after the first pass.
CountOf(baseNames, base) ==
    Cardinality({j \in 1..Len(baseNames) : baseNames[j] = base})

\* The total count is used where the running count belongs.
SeenUpToTotal(baseNames, i) ==
    Cardinality({j \in 1..Len(baseNames) : baseNames[j] = baseNames[i]})

\* seen[base] right after position i was handled in the second pass.
SeenUpTo(baseNames, i) ==
    Cardinality({j \in 1..i : baseNames[j] = baseNames[i]})

\* The suffix rule of the second pass, for the entry at position i.
SuffixedName(baseNames, i) ==
    IF CountOf(baseNames, baseNames[i]) > 1
    THEN IF SeenUpTo(baseNames, i) = 1
         THEN baseNames[i]
         ELSE baseNames[i] \o <<"-">> \o Itoa(SeenUpTo(baseNames, i))
    ELSE baseNames[i]

GenerateUniqueProfileNames(profiles) ==
    LET baseNames == BaseNames(profiles)
    IN  [i \in 1..Len(profiles) |-> SuffixedName(baseNames, i)]

(***************************************************************************)
(* internal/config: the SSO token cache.                                   *)
(***************************************************************************)
\* The start URLs of the model.
StartURLs == {"https://a.awsapps.com/start", "https://b.awsapps.com/start"}

\* Every start URL gets one and the same digest.
Sha1HexConstant(startURL) == "254784cd8283bad6d3651b7b0e6d75a70cc632ab"

\* hex(sha1(startURL)): the table of the digests of the model's start URLs.
Sha1Hex(startURL) ==
    CASE startURL = "https://a.awsapps.com/start" -> "254784cd8283bad6d3651b7b0e6d75a70cc632ab"
      [] startURL = "https://b.awsapps.com/start" -> "60f71b3b91e63d56524d11c055cab6e3628dc86d"

\* <home>/.aws/sso/cache/<sha1>.json
ssoCacheFilepath(startURL) == <<".aws", "sso", "cache", Sha1Hex(startURL), ".json">>

CachePaths == {ssoCacheFilepath(u) : u \in StartURLs}

\* No WriteSSOCache call was made yet.
NoWrite == [st |-> "none"]

\* A file that does not exist.
NoFile == [kind |-> "nofile"]

\* File content that is no JSON document: text is "" for a file truncated by
\* an os.WriteFile that has not written yet.
RawFile(text) == [kind |-> "raw", text |-> text]

\* t.UTC().Format(time.RFC3339): the text keeps whole seconds.
FormatRFC3339(t) == [layout |-> "rfc3339", sec |-> t \div TicksPerSec]

\* time.Parse(time.RFC3339, s), and on its failure the legacy layout
\* "2006-01-02T15:04:05UTC"; both give the instant of the second.
ParseExpiresAt(text) ==
    IF text.layout = "rfc3339"
    THEN [ok |-> TRUE, t |-> text.sec * TicksPerSec]
    ELSE IF text.layout = "legacy"
         THEN [ok |-> TRUE, t |-> text.sec * TicksPerSec]
         ELSE [ok |-> FALSE, t |-> 0]

\* SSOToken.MarshalJSON: the bytes of the cache file.
MarshalJSON(t) ==
    [kind |-> "json",
     startUrl |-> t.StartURL,
     region |-> t.Region,
     accessToken |-> t.AccessToken,
     expiresAt |-> FormatRFC3339(t.ExpiresAt)]

\* SSOToken.UnmarshalJSON: [ok, token].
UnmarshalJSON(data) ==
    LET bad == [ok |-> FALSE, token |-> None]
    IN  IF data.kind # "json" THEN bad
        ELSE LET parsed == ParseExpiresAt(data.expiresAt)
             IN  IF ~parsed.ok THEN bad
                 ELSE [ok |-> TRUE,
                       token |-> [StartURL |-> data.startUrl,
                                  Region |-> data.region,
                                  AccessToken |-> data.accessToken,
                                  ExpiresAt |-> parsed.t]]

\* time.Time.Before
Before(t, u) == t < u

\* The access token is not looked at.
RefusedByExpiryOnly(t, now) == Before(t.ExpiresAt, now + CacheBuffer)

\* The check of ReadSSOCache on an unmarshalled token: TRUE when it is refused.
Refused(t, now) ==
    t.AccessToken = "" \/ Before(t.ExpiresAt, now + CacheBuffer)

\* The cache is never hit.
ReadSSOCacheMiss(fs, startURL, now) == None

\* ReadSSOCache(startURL) at time now over the files fs: a token, or None.
ReadSSOCache(fs, startURL, now) ==
    LET data == fs[ssoCacheFilepath(startURL)]
    IN  IF data.kind = "nofile" THEN None
        ELSE LET u == UnmarshalJSON(data)
             IN  IF ~u.ok THEN None
                 ELSE IF Refused(u.token, now) THEN None
                 ELSE u.token

\* The bytes WriteSSOCache hands to os.WriteFile.
CacheData(startURL, region, accessToken, expiresAt) ==
    MarshalJSON([StartURL |-> startURL, Region |-> region,
                 AccessToken |-> accessToken, ExpiresAt |-> expiresAt])

\* os.WriteFile opened the file: it exists and is empty.
Truncated(fs, path) == [fs EXCEPT ![path] = RawFile("")]

\* The bytes never reach the file.
WrittenNotStored(fs, path, data) == fs

\* os.WriteFile wrote the bytes and closed the file.
Written(fs, path, data) == [fs EXCEPT ![path] = data]

(***************************************************************************)
(* internal/auth: the device-authorization flow.                           *)
(***************************************************************************)
NoCalls == [register |-> 0, startAuth |-> 0, callback |-> 0, browser |-> 0, createToken |-> 0,
            launch |-> "none"]

\* No ticker yet (pollForToken not entered).
NoTicker == [period |-> 0, next |-> 0, buf |-> FALSE]

\* The token endpoint has not answered yet.
NoAnswers == [at |-> 0, kind |-> "none", slow |-> 0, last |-> "none"]

NoResult == [kind |-> "none", token |-> 0, expiresAt |-> 0, err |-> "", cause |-> ""]

\* return &TokenResult{AccessToken, ExpiresAt: time.Now().Add(ExpiresIn)}, nil
TokenResult(accessToken, expiresAt) ==
    [kind |-> "token", token |-> accessToken, expiresAt |-> expiresAt, err |-> "", cause |-> ""]

\* return nil, fmt.Errorf(err + ": %w", cause), or the bare error (cause "")
ErrResult(err, cause) ==
    [kind |-> "err", token |-> 0, expiresAt |-> 0, err |-> err, cause |-> cause]

\* What CreateToken can come back with.  The access token of the answer to
\* call n is n.  "ctxerr" is the transport giving up on a cancelled context,
\* which a transport may or may not do.
Answers(isCancelled) ==
    {"ok", "pending", "slowdown", "denied"} \cup (IF isCancelled THEN {"ctxerr"} ELSE {})

\* The error text of an answer (empty for success).
ErrorText(answer) ==
    CASE answer = "pending"  -> "AuthorizationPendingException"
      [] answer = "slowdown" -> "SlowDownException"
      [] answer = "denied"   -> "AccessDeniedException"
      [] answer = "ctxerr"   -> "context canceled"
      [] OTHER               -> ""

isAuthPending(err) == err = "AuthorizationPendingException"

isSlowDown(err) == err = "SlowDownException"

\* Mutant of PollBranch: a pending answer is not recognised and fails the poll.
PollBranchPendingFails(answer) ==
    IF ErrorText(answer) # ""
    THEN IF isSlowDown(ErrorText(answer)) THEN "reset" ELSE "fail"
    ELSE "return"

\* Only a slow-down answer is told from a pending one: every other error
\* is polled over.
PollBranchDeniedRetries(answer) ==
    IF ErrorText(answer) # ""
    THEN IF isSlowDown(ErrorText(answer)) THEN "reset" ELSE "continue"
    ELSE "return"

\* The branch pollForToken takes on an answer of CreateToken.
PollBranch(answer) ==
    IF ErrorText(answer) # ""
    THEN IF isAuthPending(ErrorText(answer)) THEN "continue"
         ELSE IF isSlowDown(ErrorText(answer)) THEN "reset"
         ELSE "fail"
    ELSE "return"

\* The penalty is added to the period in force.
ResetPeriodAccumulated(iv, t) == t.period + SlowDownPenalty

\* ticker.Reset(interval + 5*time.Second): the new period, from the interval
\* pollForToken was called with (iv) whatever the ticker t is set to.
ResetPeriod(iv, t) == iv + SlowDownPenalty

\* No timeout channel is ever ready.
TimeoutDueNever(now) == FALSE

\* time.After(5*time.Minute), made when pollForToken is entered (second 0):
\* the timeout fires when the second now begins.
TimeoutDue(now) == now = PollTimeout

\* A failed registration is tried again.
AfterRegisterRetries(ok) == IF ok THEN "StartAuth" ELSE "Register"

\* Authenticate after client.RegisterClient: step 2, or return the error.
AfterRegister(ok) == IF ok THEN "StartAuth" ELSE "Done"

\* The error of StartDeviceAuthorization is not looked at.
AfterStartAuthUnchecked(ok) == "Notify"

\* Authenticate after client.StartDeviceAuthorization: step 3, or return.
AfterStartAuth(ok) == IF ok THEN "Notify" ELSE "Done"

\* What openBrowser can return: nil, or an error (no browser, no display).
LaunchChoices == {"ok", "failed"}

\* Authenticate returns when the browser cannot be opened.
AfterLaunchAborts(launch) == IF launch = "failed" THEN "Done" ELSE "InFlight"

\* Authenticate after openBrowser: _ = openBrowser(verificationURI), the
\* error is dropped and step 4 follows.
AfterLaunch(launch) == "InFlight"

\* time.NewTicker(d) and ticker.Reset(d) at time now: the next tick is d later.
TickerAt(d, now, buf) == [period |-> d, next |-> now + d, buf |-> buf]

\* The ticker after one more second: a tick that is due goes into ticker.C,
\* which holds one tick at most.
TickerAfterSecond(t, now) ==
    IF now + 1 = t.next
    THEN [t EXCEPT !.buf = TRUE, !.next = t.next + t.period]
    ELSE t

\* The cases of the select in pollForToken that can proceed; Go takes one of
\* them, any one when several can.
ReadyCases ==
    (IF cancelled THEN {"done"} ELSE {})
    \cup (IF timeoutBuf THEN {"timeout"} ELSE {})
    \cup (IF ticker.buf THEN {"tick"} ELSE {})

(***************************************************************************)
(* main and internal/credentials: the pipeline.                            *)
(***************************************************************************)
\* No token in hand (token == nil).
NoToken == [AccessToken |-> "", ExpiresAt |-> 0, src |-> "none"]

\* No connection chosen yet.
NoConn == [StartURL |-> "", Region |-> "", Profile |-> <<>>]

\* run has not returned.
NoOut == [err |-> "", saved |-> <<>>, exported |-> FALSE,
          export |-> FALSE, stdout |-> <<>>, stderr |-> {}]

\* ui.Output stays os.Stdout in --export mode.
OutputStdout(export) == "stdout"

\* ui.Output: os.Stdout, and os.Stderr once run has seen --export.
Output(export) == IF export THEN "stderr" ELSE "stdout"

\* fmt.Fprintln(w, ...) for each of the items: what was written to standard
\* output is kept in order, of standard error it is kept what was written.
Fprintln(o, w, items) ==
    IF w = "stdout"
    THEN [o EXCEPT !.stdout = @ \o items]
    ELSE [o EXCEPT !.stderr = @ \cup {items[i] : i \in DOMAIN items}]

\* The zero value of credentials.DiscoveredAccount.
NoAccount == [AccountID |-> 0, AccountName |-> <<>>]

\* The errgroup has no error.
NoGerr == [acct |-> 0, started |-> 0]

\* The i-th account of the provider's catalog; the account ID is its number.
\* Accounts 1 and 2 bear the same name.
AccountAt(i) ==
    [AccountID |-> i,
     AccountName |-> IF i <= 2 THEN <<"D">>
                     ELSE IF i % 2 = 0 THEN <<>> ELSE <<"d", " ", "p">>]

\* The roles of account id in the provider's catalog, in the provider's
\* order: account 1 has three, every third account none, the others one.
RolesAt(id) ==
    LET roleNames == IF id = 1 THEN << <<"A">>, <<"a", "-", "2">>, <<"R", " ", "2">> >>
                     ELSE IF id % 3 = 0 THEN <<>>
                     ELSE << <<"A">> >>
    IN  [k \in 1..Len(roleNames) |-> [AccountID |-> id, RoleName |-> roleNames[k]]]

\* Page k (from 1) of the list s at z items a page, and whether the answer
\* carries a NextToken.
PageOf(s, k, z) ==
    SubSeq(s, (k - 1) * z + 1, IF k * z < Len(s) THEN k * z ELSE Len(s))

\* No answer carries a NextToken.
HasNextTokenNever(s, k, z) == FALSE

HasNextToken(s, k, z) == k * z < Len(s)

\* The items of the pages before the failure are returned with the error.
FailedItemsKept(items) == items

\* return nil, err: what a listing returns when a request failed.
FailedItems(items) == <<>>

\* results := make([]accountRoles, n)
MakeResults(n) == [i \in 1..n |-> [account |-> NoAccount, roles |-> <<>>]]

\* The goroutines of the errgroup before g.Go was called.
MakeGroup(n) ==
    [i \in 1..n |-> [st |-> "idle", acct |-> 0, page |-> 0, roles |-> <<>>,
                     reqs |-> 0, overtook |-> FALSE]]

\* The ListAccountRoles fetches in flight.
InFlight == {i \in DOMAIN g : g[i].st = "req"}

\* A semaphore that lets one fetch too many in.
SemFreeOffByOne == Cardinality(InFlight) <= FetchLimit

\* g.Go with SetLimit: the semaphore has a free slot.
SemFree == Cardinality(InFlight) < FetchLimit

\* The roles are appended in the order the fetches finish.
StoreRolesAppended(res, i, roles) ==
    [res EXCEPT ![Cardinality({j \in DOMAIN g : g[j].st = "done"}) + 1].roles = roles]

\* The goroutine uses the index of the loop as it stands when it finishes.
StoreRolesLoopIndex(res, i, roles) ==
    [res EXCEPT ![IF next - 1 > i THEN next - 1 ELSE i].roles = roles]

\* results[i].roles = roles
StoreRoles(res, i, roles) == [res EXCEPT ![i].roles = roles]

\* The error of the goroutine that failed last is kept.
LastErr(e, i, started) == [acct |-> i, started |-> started]

\* errgroup: the error of the goroutine that returns one first is kept (and
\* gctx is cancelled); e is the error kept so far, i the goroutine.
FirstErr(e, i, started) ==
    IF e.acct = 0 THEN [acct |-> i, started |-> started] ELSE e

\* The error a goroutine returns for the account accountID.
RolesErr(accountID) == "failed to discover roles for account " \o ToString(accountID)

\* Only the error of the last goroutine is looked at.
WaitErrOfLast == g[Len(g)].st = "failed"

\* g.Wait() returns an error: the first one a goroutine returned.
WaitErr == gerr.acct # 0

\* The loop over results that builds allProfiles (Name not yet set).
RECURSIVE Flatten(_, _, _)
Flatten(res, c, i) ==
    IF i > Len(res) THEN <<>>
    ELSE [k \in 1..Len(res[i].roles) |->
            [Name |-> <<>>,
             StartURL |-> c.StartURL,
             Region |-> c.Region,
             AccountID |-> res[i].account.AccountID,
             AccountName |-> res[i].account.AccountName,
             RoleName |-> res[i].roles[k].RoleName]]
         \o Flatten(res, c, i + 1)

\* allProfiles[i].Name = names[i]
WithNames(profiles) ==
    LET generated == GenerateUniqueProfileNames(profiles)
    IN  [i \in 1..Len(profiles) |-> [profiles[i] EXCEPT !.Name = generated[i]]]

\* What the user does in the import selector: leave all checked, uncheck
\* all, keep the first, keep every other one, or cancel.
ImportChoices == {"all", "none", "first", "odd", "cancel"}

\* RunProfileImportSelector: the checked entries in the order discovered.
RECURSIVE SelectedOf(_, _, _)
SelectedOf(discovered, choice, i) ==
    IF i > Len(discovered) THEN <<>>
    ELSE (IF \/ choice = "all"
             \/ choice = "first" /\ i = 1
             \/ choice = "odd" /\ i % 2 = 1
          THEN <<discovered[i]>> ELSE <<>>)
         \o SelectedOf(discovered, choice, i + 1)

\* The profile name "default".
DefaultName == <<"d", "e", "f", "a", "u", "l", "t">>

\* sectionName: "default", or "profile " and the name (the prefix is one
\* element of the sequence).
sectionName(name) == IF name = DefaultName THEN name ELSE <<"profile ">> \o name

\* profileNameFromSection: strings.TrimPrefix(section, "profile ")
profileNameFromSection(section) ==
    IF section = DefaultName THEN section
    ELSE IF section # <<>> /\ Head(section) = "profile " THEN Tail(section)
    ELSE section

\* isSawsProfile: the section has the four SSO keys.
isSawsProfile(sec) ==
    {"sso_start_url", "sso_region", "sso_account_id", "sso_role_name"} \subseteq DOMAIN sec

\* LoadProfiles: the profiles of the sections with the SSO keys (as a set;
\* a key that is missing reads as the empty string).
LoadProfiles(st) ==
    { [Name |-> profileNameFromSection(n),
       StartURL |-> st[n]["sso_start_url"],
       Region |-> st[n]["sso_region"],
       AccountID |-> st[n]["sso_account_id"],
       AccountName |-> IF "sso_account_name" \in DOMAIN st[n]
                       THEN st[n]["sso_account_name"] ELSE <<>>,
       RoleName |-> st[n]["sso_role_name"]] : n \in {m \in DOMAIN st : isSawsProfile(st[m])} }

\* The file is written with the saved section alone.
PutSectionAlone(st, p) ==
    [n \in {sectionName(p.Name)} |->
        [k \in {"sso_start_url", "sso_region", "sso_account_id", "sso_account_name",
                "sso_role_name"} |->
            CASE k = "sso_start_url" -> p.StartURL
              [] k = "sso_region" -> p.Region
              [] k = "sso_account_id" -> p.AccountID
              [] k = "sso_account_name" -> p.AccountName
              [] OTHER -> p.RoleName]]

\* SaveProfiles, one profile: the section of its name is created or reused,
\* its comment and its SSO keys are set, sso_account_name only when the
\* account name is not empty; the other keys of the section stay.
PutSection(st, p) ==
    LET name == sectionName(p.Name)
        set == {"#comment", "sso_start_url", "sso_region", "sso_account_id", "sso_role_name"}
                 \cup (IF p.AccountName # <<>> THEN {"sso_account_name"} ELSE {})
        old == IF name \in DOMAIN st THEN DOMAIN st[name] ELSE {}
    IN  [n \in DOMAIN st \cup {name} |->
            IF n # name THEN st[n]
            ELSE [k \in set \cup old |->
                    CASE k \notin set -> st[n][k]
                      [] k = "#comment" -> "# managed by saws"
                      [] k = "sso_start_url" -> p.StartURL
                      [] k = "sso_region" -> p.Region
                      [] k = "sso_account_id" -> p.AccountID
                      [] k = "sso_account_name" -> p.AccountName
                      [] OTHER -> p.RoleName]]

\* SaveProfiles: the config file after all sections were set and saved.
RECURSIVE SaveProfiles(_, _)
SaveProfiles(st, profiles) ==
    IF profiles = <<>> THEN st
    ELSE SaveProfiles(PutSection(st, Head(profiles)), Tail(profiles))

\* The start URL and region the pipeline is run with.
RunURL == "https://a.awsapps.com/start"
RunRegion == "eu-west-1"

\* A profile saved by an earlier run.
SavedProfile ==
    [Name |-> <<"d", "-", "a">>, StartURL |-> RunURL, Region |-> RunRegion,
     AccountID |-> 1, AccountName |-> <<"D">>, RoleName |-> <<"A">>]

\* ~/.aws/config before the run: empty, or with one profile.
StoreChoices == { <<>>, SaveProfiles(<<>>, <<SavedProfile>>) }

\* The cache directory before the run: no file for the start URL, a token
\* valid for long, a token that expires within the buffer.
CacheChoices ==
    { [p \in CachePaths |-> NoFile],
      [p \in CachePaths |-> IF p = ssoCacheFilepath(RunURL)
                            THEN CacheData(RunURL, RunRegion, "tokA", CacheBuffer + MaxClock + TicksPerSec)
                            ELSE NoFile],
      [p \in CachePaths |-> IF p = ssoCacheFilepath(RunURL)
                            THEN CacheData(RunURL, RunRegion, "tokA", CacheBuffer - 1)
                            ELSE NoFile] }

\* Time between two invocations of the program: a second, and around the
\* moment the token of the run before comes within the buffer.
RunGapChoices ==
    { TicksPerSec,
      3600 * TicksPerSec - CacheBuffer,
      3600 * TicksPerSec - CacheBuffer + 1 }

\* The error of WriteSSOCache ends the run.
AfterWriteCacheAborts(cacheErr, fl) ==
    IF cacheErr THEN "done" ELSE IF fl = "profile" THEN "fetch" ELSE "accounts"

\* Where run and runDiscoveryFlow go on after WriteSSOCache returned: cacheErr
\* is printed and not returned.
AfterWriteCache(cacheErr, fl) == IF fl = "profile" THEN "fetch" ELSE "accounts"

\* No discovery under way.
DiscIdle ==
    /\ accounts = <<>>
    /\ page = 1
    /\ next = 1
    /\ g = <<>>
    /\ gerr = NoGerr
    /\ results = <<>>
    /\ allProfiles = <<>>

RunIdle ==
    /\ rpc = "done"
    /\ flow = "none"
    /\ conn = NoConn
    /\ token = NoToken
    /\ authLog = [starts |-> 0, cached |-> 0, run |-> 1, wrote |-> None]
    /\ warned = FALSE
    /\ provider = 0
    /\ DiscIdle
    /\ store = <<>>
    /\ out = NoOut

\* run returns the error err.
Fails(err) ==
    /\ out' = [out EXCEPT !.err = err]
    /\ rpc' = "done"

(***************************************************************************)
(* SpecNames: the naming functions applied to every small batch.           *)
(***************************************************************************)
\* Account names a provider may return (empty: no account name).
AccountNameChoices ==
    { <<>>, <<"D">>, <<"d">>, <<"d", " ", "p">> }

\* Role names a provider may return.
RoleNameChoices ==
    { <<"A">>, <<"a">>, <<"a", "-", "2">>, <<"R", " ", "2">> }

BatchEntries ==
    [AccountID : {"111"}, AccountName : AccountNameChoices, RoleName : RoleNameChoices]

\* All sequences over S of length 0..n.
SeqsUpTo(S, n) == UNION {[1..k -> S] : k \in 0..n}

\* No rc file is being installed into, no selector runs.
NoRc == [content |-> <<>>, orig |-> <<>>, installs |-> 0, last |-> ""]

NoSel == [kind |-> "none"]

ToolsIdle ==
    /\ rc = NoRc
    /\ sel = NoSel

NamesIdle ==
    /\ batch = <<>>
    /\ names = <<>>
    /\ npc = "done"

CacheIdle ==
    /\ files = <<>>
    /\ clock = 0
    /\ wr = NoWrite
    /\ lastRead = None

AuthIdle ==
    /\ apc = "Done"
    /\ oidc = NoCalls
    /\ interval = 0
    /\ ticker = NoTicker
    /\ timeoutBuf = FALSE
    /\ cancelled = FALSE
    /\ elapsed = 0
    /\ srv = NoAnswers
    /\ lateCalls = [cancel |-> 0, timeout |-> 0, at |-> 0]
    /\ result = NoResult

InitNames ==
    /\ batch \in SeqsUpTo(BatchEntries, MaxBatch)
    /\ names = <<>>
    /\ npc = "input"
    /\ CacheIdle
    /\ AuthIdle
    /\ RunIdle
    /\ ToolsIdle

\* names := ui.GenerateUniqueProfileNames(profiles)
GenerateNames ==
    /\ npc = "input"
    /\ names' = GenerateUniqueProfileNames(batch)
    /\ npc' = "done"
    /\ UNCHANGED <<batch, offNames>>

NextNames == GenerateNames

SpecNames == InitNames /\ [][NextNames]_vars

(***************************************************************************)
(* SpecCache: WriteSSOCache and ReadSSOCache on the cache directory, with  *)
(* the clock running.  os.WriteFile truncates the file and then writes it, *)
(* so a write is two steps and a read may fall between them.               *)
(***************************************************************************)
\* Region and access token of a write.
WriteChoices == { <<"eu-west-1", "tokA">>, <<"us-east-1", "tokB">> }

\* expiresAt of a write: around now + 5 minutes, and long ago.
ExpiryChoices ==
    {0, CacheBuffer - 1, CacheBuffer, CacheBuffer + 2, CacheBuffer + MaxClock + TicksPerSec}

\* Files found in the cache directory that this run did not write: none,
\* no JSON, JSON of another tool without accessToken, with the legacy
\* timestamp, with an unreadable timestamp.
ForeignFiles(u) ==
    { NoFile,
      RawFile("not json"),
      [kind |-> "json", startUrl |-> u, region |-> "eu-west-1", accessToken |-> "",
       expiresAt |-> [layout |-> "rfc3339", sec |-> (CacheBuffer \div TicksPerSec) + MaxClock]],
      [kind |-> "json", startUrl |-> u, region |-> "eu-west-1", accessToken |-> "tokL",
       expiresAt |-> [layout |-> "legacy", sec |-> (CacheBuffer \div TicksPerSec) + 1]],
      [kind |-> "json", startUrl |-> u, region |-> "eu-west-1", accessToken |-> "tokX",
       expiresAt |-> [layout |-> "bad", sec |-> 0]] }

InitCache ==
    /\ NamesIdle
    /\ ToolsIdle
    /\ AuthIdle
    /\ RunIdle
    /\ files \in {f \in [CachePaths -> UNION {ForeignFiles(u) : u \in StartURLs}] :
                    \A u \in StartURLs : f[ssoCacheFilepath(u)] \in ForeignFiles(u)}
    /\ clock = 0
    /\ wr = NoWrite
    /\ lastRead = None

\* WriteSSOCache fails before the file is opened (home directory, MkdirAll,
\* or the open itself): nothing is changed.
WriteFailsEarly ==
    /\ wr.st # "open"
    /\ \E u \in StartURLs, c \in WriteChoices, e \in ExpiryChoices :
         wr' = [url |-> u, region |-> c[1], token |-> c[2], exp |-> e, st |-> "err",
                over |-> FALSE]
    /\ lastRead' = None
    /\ UNCHANGED <<files, clock, offCache>>

\* WriteSSOCache up to the open of os.WriteFile (O_TRUNC): the file is empty.
WriteOpen ==
    /\ wr.st # "open"
    /\ \E u \in StartURLs, c \in WriteChoices, e \in ExpiryChoices :
         /\ wr' = [url |-> u, region |-> c[1], token |-> c[2], exp |-> e, st |-> "open",
                   over |-> LET old == files[ssoCacheFilepath(u)]
                            IN  /\ old.kind = "json"
                                /\ old.accessToken \in {w[2] : w \in WriteChoices} \ {c[2]}]
         /\ files' = Truncated(files, ssoCacheFilepath(u))
    /\ lastRead' = None
    /\ UNCHANGED <<clock, offCache>>

\* os.WriteFile writes the bytes and WriteSSOCache returns nil.
WriteDone ==
    /\ wr.st = "open"
    /\ files' = Written(files, ssoCacheFilepath(wr.url),
                        CacheData(wr.url, wr.region, wr.token, wr.exp))
    /\ wr' = [wr EXCEPT !.st = "ok"]
    /\ lastRead' = None
    /\ UNCHANGED <<clock, offCache>>

\* The write fails after the open (disk full): WriteSSOCache returns the error.
WriteFailsLate ==
    /\ wr.st = "open"
    /\ wr' = [wr EXCEPT !.st = "err"]
    /\ lastRead' = None
    /\ UNCHANGED <<files, clock, offCache>>

\* ReadSSOCache(u), by this program or by another reader of the cache.
ReadCache ==
    /\ \E u \in StartURLs :
         lastRead' = [url |-> u, at |-> clock, token |-> ReadSSOCache(files, u, clock)]
    /\ UNCHANGED <<files, clock, wr, offCache>>

\* Time passes.
TickCache ==
    /\ clock < MaxClock
    /\ clock' = clock + 1
    /\ lastRead' = None
    /\ UNCHANGED <<files, wr, offCache>>

NextCache ==
    \/ WriteFailsEarly
    \/ WriteOpen
    \/ WriteDone
    \/ WriteFailsLate
    \/ ReadCache
    \/ TickCache

SpecCache == InitCache /\ [][NextCache]_vars

(***************************************************************************)
(* SpecAuth: one call of Authenticate against an OIDC client whose answers *)
(* are arbitrary, with the clock running and the context being cancelled   *)
(* at any moment of the polling.                                           *)
(***************************************************************************)
\* deviceOut.Interval as the server gives it, in seconds (0: omitted).
IntervalChoices == {0, 1, 2}

\* tokenOut.ExpiresIn, in seconds.
ExpiresInChoices == {3600}

InitAuth ==
    /\ NamesIdle
    /\ ToolsIdle
    /\ CacheIdle
    /\ RunIdle
    /\ apc = "Register"
    /\ oidc = NoCalls
    /\ interval = 0
    /\ ticker = NoTicker
    /\ timeoutBuf = FALSE
    /\ cancelled = FALSE
    /\ elapsed = 0
    /\ srv = NoAnswers
    /\ lateCalls = [cancel |-> 0, timeout |-> 0, at |-> 0]
    /\ result = NoResult

\* Step 1: client.RegisterClient.
RegisterClient ==
    /\ apc = "Register"
    /\ oidc' = [oidc EXCEPT !.register = @ + 1]
    /\ \E ok \in BOOLEAN :
         /\ apc' = AfterRegister(ok)
         /\ result' = IF ok THEN result
                       ELSE ErrResult("failed to register client", "register")
    /\ UNCHANGED <<interval, ticker, timeoutBuf, cancelled, elapsed, srv,
                   lateCalls, offAuth>>

\* Step 2: client.StartDeviceAuthorization.
StartDeviceAuthorization ==
    /\ apc = "StartAuth"
    /\ oidc' = [oidc EXCEPT !.startAuth = @ + 1]
    /\ \E ok \in BOOLEAN, iv \in IntervalChoices :
         /\ apc' = AfterStartAuth(ok)
         /\ interval' = IF ok THEN iv ELSE interval
         /\ result' = IF ok THEN result
                       ELSE ErrResult("failed to start device authorization", "start")
    /\ UNCHANGED <<ticker, timeoutBuf, cancelled, elapsed, srv, lateCalls, offAuth>>

\* Steps 3 and 4 up to the first CreateToken: onDeviceAuth, openBrowser (its
\* error is dropped), the default interval, and pollForToken's entry: the
\* ticker, the timeout, and with first = true the call without a select.
NotifyAndPoll ==
    /\ apc = "Notify"
    /\ \E launch \in LaunchChoices :
         /\ oidc' = [oidc EXCEPT !.callback = @ + 1, !.browser = @ + 1,
                                 !.launch = launch,
                                 !.createToken = IF AfterLaunch(launch) = "InFlight"
                                                 THEN @ + 1 ELSE @]
         /\ apc' = AfterLaunch(launch)
    /\ interval' = IF interval = 0 THEN DefaultInterval ELSE interval
    /\ ticker' = TickerAt(interval', elapsed, FALSE)
    /\ lateCalls' = [lateCalls EXCEPT !.at = elapsed]
    /\ UNCHANGED <<timeoutBuf, cancelled, elapsed, srv, result, offAuth>>

\* client.CreateToken returns and pollForToken acts on the answer.  A tick
\* that waits in ticker.C when the ticker is reset stays there with the
\* buffered timer channels of Go before 1.23 and is dropped from 1.23 on.
CreateTokenReturns ==
    /\ apc = "InFlight"
    /\ \E answer \in Answers(cancelled), expiresIn \in ExpiresInChoices :
         /\ srv' = [at |-> IF srv.at = 0 /\ answer # "pending"
                           THEN oidc.createToken ELSE srv.at,
                    kind |-> IF srv.at = 0 /\ answer # "pending"
                             THEN answer ELSE srv.kind,
                    slow |-> IF answer = "slowdown" /\ srv.slow < 2
                             THEN srv.slow + 1 ELSE srv.slow,
                    last |-> answer]
         /\ CASE PollBranch(answer) = "return" ->
                   /\ apc' = "Done"
                   /\ result' = TokenResult(oidc.createToken, elapsed + expiresIn)
                   /\ ticker' = ticker
              [] PollBranch(answer) = "continue" ->
                   /\ apc' = "Select"
                   /\ UNCHANGED <<result, ticker>>
              [] PollBranch(answer) = "reset" ->
                   /\ apc' = "Select"
                   /\ \E stale \in {ticker.buf, FALSE} :
                        ticker' = TickerAt(ResetPeriod(interval, ticker), elapsed, stale)
                   /\ result' = result
              [] OTHER ->
                   /\ apc' = "Done"
                   /\ result' = ErrResult("failed to create token", ErrorText(answer))
                   /\ ticker' = ticker
    /\ UNCHANGED <<oidc, interval, timeoutBuf, cancelled, elapsed, lateCalls, offAuth>>

\* select: case <-ctx.Done(): return nil, ctx.Err()
SelectDone ==
    /\ apc = "Select"
    /\ "done" \in ReadyCases
    /\ apc' = "Done"
    /\ result' = ErrResult("context canceled", "")
    /\ UNCHANGED <<oidc, interval, ticker, timeoutBuf, cancelled, elapsed, srv,
                   lateCalls, offAuth>>

\* select: case <-timeout: return nil, "authorization timed out after 5 minutes"
SelectTimeout ==
    /\ apc = "Select"
    /\ "timeout" \in ReadyCases
    /\ apc' = "Done"
    /\ timeoutBuf' = FALSE
    /\ result' = ErrResult("authorization timed out after 5 minutes", "")
    /\ UNCHANGED <<oidc, interval, ticker, cancelled, elapsed, srv, lateCalls, offAuth>>

\* select: case <-ticker.C, and the CreateToken call that follows it.
SelectTick ==
    /\ apc = "Select"
    /\ "tick" \in ReadyCases
    /\ ticker' = [ticker EXCEPT !.buf = FALSE]
    /\ oidc' = [oidc EXCEPT !.createToken = @ + 1]
    /\ lateCalls' = [cancel |-> lateCalls.cancel + (IF cancelled THEN 1 ELSE 0),
                     timeout |-> lateCalls.timeout + (IF timeoutBuf THEN 1 ELSE 0),
                     at |-> elapsed]
    /\ apc' = "InFlight"
    /\ UNCHANGED <<interval, timeoutBuf, cancelled, elapsed, srv, result, offAuth>>

\* The caller's context is cancelled while Authenticate polls.
Cancel ==
    /\ apc \in {"InFlight", "Select"}
    /\ ~cancelled
    /\ cancelled' = TRUE
    /\ UNCHANGED <<apc, oidc, interval, ticker, timeoutBuf, elapsed, srv,
                   lateCalls, result, offAuth>>

\* A second passes: while CreateToken is in flight, or while the select
\* waits with no case ready (a ready case is taken without delay).
TickAuth ==
    /\ apc \in {"InFlight", "Select"}
    /\ apc = "Select" => ReadyCases = {}
    /\ elapsed < MaxElapsed
    /\ elapsed' = elapsed + 1
    /\ ticker' = TickerAfterSecond(ticker, elapsed)
    /\ timeoutBuf' = (timeoutBuf \/ TimeoutDue(elapsed + 1))
    /\ UNCHANGED <<apc, oidc, interval, cancelled, srv, lateCalls, result, offAuth>>

NextAuth ==
    \/ RegisterClient
    \/ StartDeviceAuthorization
    \/ NotifyAndPoll
    \/ CreateTokenReturns
    \/ SelectDone
    \/ SelectTimeout
    \/ SelectTick
    \/ Cancel
    \/ TickAuth

SpecAuth == InitAuth /\ [][NextAuth]_vars

\* Every CreateToken call returns, time passes, a select with a ready case
\* goes on, and a select that finds the timeout ready time and again takes
\* it at some time (Go chooses among the ready cases at random).
SpecAuthFair ==
    /\ SpecAuth
    /\ WF_vars(CreateTokenReturns)
    /\ WF_vars(TickAuth)
    /\ WF_vars(SelectTick)
    /\ SF_vars(SelectTimeout)

(***************************************************************************)
(* SpecRun: one run of the pipeline, from resolveProfile on.               *)
(***************************************************************************)
InitRun ==
    /\ NamesIdle
    /\ ToolsIdle
    /\ AuthIdle
    /\ files \in CacheChoices
    /\ clock = 0
    /\ wr = NoWrite
    /\ lastRead = None
    /\ rpc = "resolve"
    /\ flow = "none"
    /\ conn = NoConn
    /\ token = NoToken
    /\ authLog = [starts |-> 0, cached |-> 0, run |-> 1, wrote |-> None]
    /\ warned = FALSE
    /\ provider \in 0..RunAccounts
    /\ DiscIdle
    /\ store \in StoreChoices
    /\ \E export \in BOOLEAN : out = [NoOut EXCEPT !.export = export]

\* resolveProfile: a saved profile is looked up or picked, or the discovery
\* flow is entered (--configure, no saved profile, "configure new"), or the
\* lookup or the prompt fails.
ResolveProfile ==
    /\ rpc = "resolve"
    /\ \/ \E p \in LoadProfiles(store) :
            /\ flow' = "profile"
            /\ conn' = [StartURL |-> p.StartURL, Region |-> p.Region, Profile |-> p.Name]
            /\ rpc' = "cache"
            /\ \E shown \in {<<"banner">>, <<"banner", "prompt">>} :
                 out' = Fprintln(out, Output(out.export), shown)
       \/ /\ flow' = "discovery"
          /\ rpc' = "form"
          /\ conn' = conn
          /\ \E shown \in {<<"banner">>, <<"banner", "prompt">>} :
               out' = Fprintln(out, Output(out.export), shown)
       \/ /\ out' = [Fprintln(out, Output(out.export), <<"banner">>)
                         EXCEPT !.err = "resolve profile"]
          /\ rpc' = "done"
          /\ UNCHANGED <<flow, conn>>
    /\ UNCHANGED <<token, authLog, warned, discVars, store, files, clock, offRun>>

\* run: config.ReadSSOCache(p.StartURL) when resolveProfile brought no token.
CheckCache ==
    /\ rpc = "cache"
    /\ LET cached == ReadSSOCache(files, conn.StartURL, clock)
       IN  IF cached # None
           THEN /\ token' = [AccessToken |-> cached.AccessToken,
                             ExpiresAt |-> cached.ExpiresAt, src |-> "cache"]
                /\ rpc' = "fetch"
                /\ out' = Fprintln(out, Output(out.export), <<"status">>)
           ELSE /\ token' = token
                /\ rpc' = "auth"
                /\ out' = out
    /\ UNCHANGED <<flow, conn, authLog, warned, discVars, store, files, clock, offRun>>

\* runDiscoveryFlow, step 1: ui.RunSSOConnectionForm and LoadDefaultConfig.
ConnectionForm ==
    /\ rpc = "form"
    /\ \/ \E u \in StartURLs :
            /\ conn' = [StartURL |-> u, Region |-> RunRegion, Profile |-> <<>>]
            /\ rpc' = "auth"
            /\ out' = Fprintln(out, Output(out.export), <<"prompt">>)
       \/ /\ out' = [Fprintln(out, Output(out.export), <<"prompt">>)
                         EXCEPT !.err = "connection form"]
          /\ rpc' = "done"
          /\ conn' = conn
    /\ UNCHANGED <<flow, token, authLog, warned, discVars, store, files, clock, offRun>>

\* auth.Authenticate as a whole (SpecAuth has its steps): a token or an error.
Authenticate ==
    /\ rpc = "auth"
    /\ authLog' = [authLog EXCEPT
                     !.starts = @ + 1,
                     !.cached = @ + (IF ReadSSOCache(files, conn.StartURL, clock) # None
                                     THEN 1 ELSE 0)]
    /\ \/ /\ \E e \in ExpiresInChoices :
                token' = [AccessToken |-> "tokNew",
                          ExpiresAt |-> clock + e * TicksPerSec, src |-> "auth"]
          /\ rpc' = "write"
          /\ out' = Fprintln(out, Output(out.export), <<"status", "device-auth", "status">>)
       \/ /\ \E shown \in {<<"status">>, <<"status", "device-auth", "status">>} :
               out' = [Fprintln(out, Output(out.export), shown)
                         EXCEPT !.err = "authentication"]
          /\ rpc' = "done"
          /\ token' = token
    /\ UNCHANGED <<flow, conn, warned, discVars, store, files, clock, offRun>>

\* config.WriteSSOCache after Authenticate: it succeeds, fails before the
\* file was opened, or fails after; a failure is a warning only.
WriteCache ==
    /\ rpc = "write"
    /\ \E o \in {"ok", "early", "late"} :
         /\ files' = IF o = "ok"
                     THEN Written(files, ssoCacheFilepath(conn.StartURL),
                                  CacheData(conn.StartURL, conn.Region,
                                            token.AccessToken, token.ExpiresAt))
                     ELSE IF o = "late"
                          THEN Truncated(files, ssoCacheFilepath(conn.StartURL))
                          ELSE files
         /\ warned' = (o # "ok")
         /\ authLog' = IF o = "ok"
                       THEN [authLog EXCEPT !.wrote =
                                [url |-> conn.StartURL, token |-> token.AccessToken,
                                 exp |-> token.ExpiresAt, run |-> authLog.run]]
                       ELSE IF /\ o = "late"
                               /\ authLog.wrote # None
                               /\ authLog.wrote.url = conn.StartURL
                            THEN [authLog EXCEPT !.wrote = None]
                            ELSE authLog
         /\ rpc' = AfterWriteCache(o # "ok", flow)
         /\ out' = IF o # "ok" THEN Fprintln(out, "stderr", <<"warning">>) ELSE out
    /\ UNCHANGED <<flow, conn, token, discVars, store, clock, offRun>>

\* fetchCredentials and exportCredentials: the credentials file is written
\* or a warning printed, and in export mode fmt.Println writes the export
\* commands to standard output before the display.
FetchAndExport ==
    /\ rpc = "fetch"
    /\ \/ /\ \E written \in BOOLEAN :
               LET o1 == IF written
                         THEN Fprintln(out, Output(out.export), <<"status">>)
                         ELSE Fprintln(out, "stderr", <<"warning">>)
                   o2 == IF out.export THEN Fprintln(o1, "stdout", <<"export">>) ELSE o1
                   o3 == Fprintln(o2, Output(out.export), <<"display", "status">>)
               IN  out' = [o3 EXCEPT !.exported = TRUE]
          /\ rpc' = "done"
       \/ Fails("credentials")
    /\ UNCHANGED <<flow, conn, token, authLog, warned, discVars, store, files, clock, offRun>>

\* credentials.ListAccounts: one turn of its loop, and on the last page the
\* code of runDiscoveryFlow up to the fan-out.
ListAccountsPage ==
    /\ rpc = "accounts"
    /\ \/ /\ out' = [Fprintln(out, Output(out.export), <<"status">>)
                         EXCEPT !.err = "failed to discover accounts"]
          /\ rpc' = "done"
          /\ accounts' = FailedItems(accounts)
          /\ UNCHANGED <<page, next, g, results>>
       \/ LET all == [i \in 1..provider |-> AccountAt(i)]
              acc == accounts \o PageOf(all, page, AccountPageSize)
          IN  /\ ~cancelled
              /\ accounts' = acc
              /\ IF HasNextToken(all, page, AccountPageSize)
                 THEN /\ page' = page + 1
                      /\ UNCHANGED <<rpc, out, next, g, results>>
                 ELSE IF Len(acc) = 0
                      THEN /\ out' = [Fprintln(out, Output(out.export), <<"status">>)
                                          EXCEPT !.err = "no AWS accounts found for this SSO user"]
                           /\ rpc' = "done"
                           /\ UNCHANGED <<page, next, g, results>>
                      ELSE /\ results' = MakeResults(Len(acc))
                           /\ g' = MakeGroup(Len(acc))
                           /\ next' = 1
                           /\ rpc' = "fanout"
                           /\ out' = Fprintln(out, Output(out.export),
                                              <<"status", "status", "status">>)
                           /\ page' = page
    /\ UNCHANGED <<flow, conn, token, authLog, warned, provider, gerr, allProfiles,
                   store, files, clock, offRun>>

\* (A client that is handed a cancelled context answers with an error.)
\* One turn of the loop over the accounts: the slot gets its account, g.Go
\* takes a slot of the semaphore and the goroutine sends the first request
\* of ListAccountRoles (with gctx, cancelled or not).
StartFetch ==
    /\ rpc = "fanout"
    /\ next <= Len(accounts)
    /\ SemFree
    /\ results' = [results EXCEPT ![next].account = accounts[next]]
    /\ g' = [g EXCEPT ![next] = [st |-> "req", acct |-> accounts[next].AccountID,
                                 page |-> 1, roles |-> <<>>, reqs |-> 1,
                                 overtook |-> FALSE]]
    /\ next' = next + 1
    /\ UNCHANGED <<rpc, flow, conn, token, authLog, warned, provider, accounts, page,
                   gerr, allProfiles, store, out, files, clock, offRun>>

\* A request of ListAccountRoles for account i is answered: an error ends
\* the goroutine, and the first error of the group cancels gctx; a page is
\* appended, and the next request is sent or the roles are stored.
RoleResponse(i) ==
    /\ rpc = "fanout"
    /\ i \in DOMAIN g
    /\ g[i].st = "req"
    /\ \/ /\ g' = [g EXCEPT ![i].st = "failed", ![i].roles = FailedItems(@)]
          /\ gerr' = FirstErr(gerr, i, next - 1)
          /\ results' = results
       \/ LET all == RolesAt(g[i].acct)
              roles == g[i].roles \o PageOf(all, g[i].page, RolePageSize)
          IN  /\ ~cancelled
              /\ IF HasNextToken(all, g[i].page, RolePageSize)
                 THEN /\ g' = [g EXCEPT ![i].roles = roles, ![i].page = @ + 1, ![i].reqs = @ + 1]
                      /\ UNCHANGED <<gerr, results>>
                 ELSE /\ g' = [g EXCEPT ![i].roles = roles, ![i].st = "done",
                                         ![i].overtook = (\E j \in InFlight : j < i)]
                      /\ results' = StoreRoles(results, i, roles)
                      /\ gerr' = gerr
    /\ UNCHANGED <<rpc, flow, conn, token, authLog, warned, provider, accounts, page,
                   next, allProfiles, store, out, files, clock, offRun>>

\* g.Wait returns: with the first error, or the profiles are built, named
\* and handed to the import selector.
Wait ==
    /\ rpc = "fanout"
    /\ next > Len(accounts)
    /\ InFlight = {}
    /\ IF WaitErr
       THEN /\ Fails(RolesErr(accounts[gerr.acct].AccountID))
            /\ allProfiles' = allProfiles
       ELSE LET flat == Flatten(results, conn, 1)
            IN  IF Len(flat) = 0
                THEN /\ Fails("no roles found across any accounts")
                     /\ allProfiles' = allProfiles
                ELSE /\ allProfiles' = WithNames(flat)
                     /\ rpc' = "import"
                     /\ out' = Fprintln(out, Output(out.export), <<"status">>)
    /\ UNCHANGED <<flow, conn, token, authLog, warned, provider, accounts, page, next,
                   g, gerr, results, store, files, clock, offRun>>

\* ui.RunProfileImportSelector and config.SaveProfiles.
ImportAndSave ==
    /\ rpc = "import"
    /\ \E choice \in ImportChoices :
         LET selected == SelectedOf(allProfiles, choice, 1)
             shown == Fprintln(out, Output(out.export), <<"prompt">>)
         IN  IF choice = "cancel"
             THEN /\ out' = [shown EXCEPT !.err = "import selection cancelled"]
                  /\ rpc' = "done"
                  /\ store' = store
             ELSE IF selected = <<>>
                  THEN /\ out' = [shown EXCEPT !.err = "no profiles selected"]
                       /\ rpc' = "done"
                       /\ store' = store
                  ELSE \/ /\ store' = SaveProfiles(store, selected)
                          /\ out' = [Fprintln(shown, Output(out.export), <<"status", "status">>)
                                        EXCEPT !.saved = selected]
                          /\ rpc' = "done"
                       \/ /\ out' = [shown EXCEPT !.err = "failed to save profiles"]
                          /\ rpc' = "done"
                          /\ store' = store
    /\ UNCHANGED <<flow, conn, token, authLog, warned, discVars, files, clock, offRun>>

\* The program is started again, some time after the run before returned:
\* the files of ~/.aws are what that run left.
RunAgain ==
    /\ rpc = "done"
    /\ authLog.run < MaxRuns
    /\ \E d \in RunGapChoices : clock' = clock + d
    /\ authLog' = [authLog EXCEPT !.starts = 0, !.run = @ + 1]
    /\ rpc' = "resolve"
    /\ flow' = "none"
    /\ conn' = NoConn
    /\ token' = NoToken
    /\ warned' = FALSE
    /\ \E export \in BOOLEAN : out' = [NoOut EXCEPT !.export = export]
    /\ accounts' = <<>>
    /\ page' = 1
    /\ next' = 1
    /\ g' = <<>>
    /\ gerr' = NoGerr
    /\ results' = <<>>
    /\ allProfiles' = <<>>
    /\ UNCHANGED <<provider, store, files, offRun>>

NextRun ==
    \/ RunAgain
    \/ ResolveProfile
    \/ CheckCache
    \/ ConnectionForm
    \/ Authenticate
    \/ WriteCache
    \/ FetchAndExport
    \/ ListAccountsPage
    \/ StartFetch
    \/ \E i \in DOMAIN g : RoleResponse(i)
    \/ Wait
    \/ ImportAndSave

SpecRun == InitRun /\ [][NextRun]_vars

(***************************************************************************)
(* SpecDiscovery: runDiscoveryFlow from step 3 on (the token was obtained  *)
(* and cached), against catalogs of up to MaxAccounts accounts.            *)
(***************************************************************************)
InitDiscovery ==
    /\ NamesIdle
    /\ ToolsIdle
    /\ AuthIdle
    /\ files = Written([p \in CachePaths |-> NoFile], ssoCacheFilepath(RunURL),
                       CacheData(RunURL, RunRegion, "tokNew", 3600 * TicksPerSec))
    /\ clock = 0
    /\ wr = NoWrite
    /\ lastRead = None
    /\ rpc = "accounts"
    /\ flow = "discovery"
    /\ conn = [StartURL |-> RunURL, Region |-> RunRegion, Profile |-> <<>>]
    /\ token = [AccessToken |-> "tokNew", ExpiresAt |-> 3600 * TicksPerSec, src |-> "auth"]
    /\ authLog = [starts |-> 1, cached |-> 0, run |-> 1,
                   wrote |-> [url |-> RunURL, token |-> "tokNew",
                              exp |-> 3600 * TicksPerSec, run |-> 1]]
    /\ warned = FALSE
    /\ provider \in 0..MaxAccounts
    /\ DiscIdle
    /\ store = SaveProfiles(<<>>, <<SavedProfile>>)
    /\ out = NoOut

NextDiscovery ==
    \/ ListAccountsPage
    \/ StartFetch
    \/ \E i \in DOMAIN g : RoleResponse(i)
    \/ Wait
    \/ ImportAndSave

SpecDiscovery == InitDiscovery /\ [][NextDiscovery]_vars

\* The context handed to runDiscoveryFlow is cancelled while ListAccounts
\* runs, or during the fan-out while a fetch is in flight or still to start.
CancelDiscovery ==
    /\ ~cancelled
    /\ \/ rpc = "accounts"
       \/ rpc = "fanout" /\ (InFlight # {} \/ next <= Len(accounts))
    /\ cancelled' = TRUE
    /\ UNCHANGED <<apc, oidc, interval, ticker, timeoutBuf, elapsed, srv,
                   lateCalls, result, nameVars, cacheVars, runVars, toolVars>>

NextDiscoveryCancel ==
    \/ NextDiscovery
    \/ CancelDiscovery

SpecDiscoveryCancel == InitDiscovery /\ [][NextDiscoveryCancel]_vars

\* The goroutines run and the catalog answers every request.
SpecDiscoveryFair ==
    /\ SpecDiscovery
    /\ WF_vars(ListAccountsPage)
    /\ WF_vars(StartFetch)
    /\ \A i \in 1..MaxAccounts : WF_vars(RoleResponse(i))
    /\ WF_vars(Wait)

(***************************************************************************)
(* SpecStore: SaveProfile and SaveProfiles applied, call after call, to an *)
(* AWS config file that holds sections of saws and of other tools.         *)
(***************************************************************************)
\* The profiles handed to SaveProfile.
ProfileChoices ==
    [Name : {SavedProfile.Name, DefaultName, <<"w">>},
     StartURL : {RunURL},
     Region : {RunRegion},
     AccountID : {1, 2},
     AccountName : {<<>>, <<"D">>, <<"E">>},
     RoleName : {<<"A">>}]

\* The arguments of SaveProfiles: one profile (SaveProfile), or two.
SaveChoices ==
    {<<p>> : p \in ProfileChoices} \cup
    {<<p, q>> : p, q \in {r \in ProfileChoices : r.AccountID = 1 /\ r.AccountName # <<"E">>}}

\* The config file at the start: an sso-session section, and any of a
\* profile of saws, a profile "w" and a default section of another tool.
InitStore ==
    /\ NamesIdle
    /\ ToolsIdle
    /\ CacheIdle
    /\ AuthIdle
    /\ rpc = "done"
    /\ flow = "none"
    /\ conn = NoConn
    /\ token = NoToken
    /\ authLog = [starts |-> 0, cached |-> 0, run |-> 1, wrote |-> None]
    /\ warned = FALSE
    /\ provider = 0
    /\ DiscIdle
    /\ out = NoOut
    /\ \E present \in SUBSET {sectionName(SavedProfile.Name), sectionName(<<"w">>),
                              DefaultName} :
         store = [n \in present \cup {<<"sso-session ", "s">>} |->
                    CASE n = sectionName(SavedProfile.Name) ->
                           SaveProfiles(<<>>, <<SavedProfile>>)[n]
                      [] n = sectionName(<<"w">>) ->
                           [k \in {"region", "output"} |->
                               IF k = "region" THEN "us-east-1" ELSE "json"]
                      [] n = DefaultName ->
                           [k \in {"region"} |-> "eu-west-1"]
                      [] OTHER ->
                           [k \in {"sso_start_url", "sso_region"} |->
                               IF k = "sso_start_url" THEN RunURL ELSE RunRegion]]

\* One call of SaveProfile or SaveProfiles: the file is loaded, the sections
\* are set and the file is saved, or the call fails and the file stays.
SaveToStore ==
    /\ \E ps \in SaveChoices :
         \/ /\ store' = SaveProfiles(store, ps)
            /\ out' = [NoOut EXCEPT !.saved = ps]
         \/ /\ store' = store
            /\ out' = [NoOut EXCEPT !.err = "failed to save profiles"]
    /\ UNCHANGED <<rpc, flow, conn, token, authLog, warned, discVars, files, clock, offRun>>

SpecStore == InitStore /\ [][SaveToStore]_vars

(***************************************************************************)
(* SpecShell: Install calls on one rc file.  The file is a sequence of     *)
(* pieces of text: the two marker lines, a newline, other text of the      *)
(* user, and the body of a wrapper function (which names its shell syntax  *)
(* and its binary path).                                                   *)
(***************************************************************************)
beginMarker == "# >>> saws initialize >>>"

endMarker == "# <<< saws initialize <<<"

\* The text between the markers: posixWrapper and fishWrapper with the
\* binary path filled in (bash and zsh share the POSIX syntax).
WrapperBody(sh, binaryPath) ==
    (IF sh = "fish" THEN "\nfunction saws " ELSE "\nsaws() ") \o binaryPath \o "\n"

\* WrapperScript: begin marker, function, end marker.
WrapperScript(sh, binaryPath) == <<beginMarker, WrapperBody(sh, binaryPath), endMarker>>

\* strings.Index(content, marker), counted from 1; 0 when there is none.
Index(content, marker) ==
    IF \E i \in DOMAIN content : content[i] = marker
    THEN CHOOSE i \in DOMAIN content :
             /\ content[i] = marker
             /\ \A j \in 1..(i - 1) : content[j] # marker
    ELSE 0

\* replaceOrAppendBlock: content[:start] + block + content[end+len(endMarker):]
\* when both markers are found, else the block after a blank line.
replaceOrAppendBlock(content, block) ==
    LET start == Index(content, beginMarker)
        end == Index(content, endMarker)
    IN  IF start > 0 /\ end > 0
        THEN SubSeq(content, 1, start - 1) \o block \o SubSeq(content, end + 1, Len(content))
        ELSE LET c1 == IF content # <<>> /\ content[Len(content)] # "\n"
                       THEN Append(content, "\n") ELSE content
                 c2 == IF c1 # <<>> THEN Append(c1, "\n") ELSE c1
             IN  c2 \o block \o <<"\n">>

\* The rc file before the first Install: up to MaxRcLen pieces, a marker
\* line being one of them (absent or empty: no piece).
InitShell ==
    /\ NamesIdle
    /\ CacheIdle
    /\ AuthIdle
    /\ RunIdle
    /\ sel = NoSel
    /\ \E content \in SeqsUpTo({"alias ll='ls -la'", "\n", beginMarker, endMarker}, MaxRcLen) :
         rc = [content |-> content, orig |-> content, installs |-> 0, last |-> ""]

\* Install(sh, binaryPath, rcPath): the file is read, the block replaced or
\* appended, the file written; or an error is returned (the file cannot be
\* read, the directory not made, the file not written) and the file is as
\* it was.
Install ==
    /\ rc.installs < MaxInstalls
    /\ \E sh \in {"bash", "fish"}, binaryPath \in {"/old/path/saws", "/new/path/saws"} :
         \/ rc' = [rc EXCEPT
                     !.content = replaceOrAppendBlock(@, WrapperScript(sh, binaryPath)),
                     !.installs = @ + 1,
                     !.last = WrapperBody(sh, binaryPath)]
         \/ rc' = [rc EXCEPT !.installs = @ + 1]
    /\ UNCHANGED <<sel, offTools>>

SpecShell == InitShell /\ [][Install]_vars

(***************************************************************************)
(* SpecSelector: the profile selector and the import selector, as the      *)
(* state machines their Update methods are.  The terminal program hands    *)
(* Update one key at a time and ends when Update returns tea.Quit; p.Run   *)
(* then returns the final model to RunProfileSelector or                   *)
(* RunProfileImportSelector.  Strings are sequences of characters.         *)
(***************************************************************************)
\* GroupByAccount: the groups in the order their account first occurs, each
\* with its profiles in order and the first account name that is not empty.
GroupByAccount(profiles) ==
    LET key(p) == <<p.StartURL, p.AccountID>>
        firsts == SelectSeq([i \in DOMAIN profiles |-> i],
                            LAMBDA i : \A j \in 1..(i - 1) : key(profiles[j]) # key(profiles[i]))
        rolesOf(i) == SelectSeq(profiles, LAMBDA p : key(p) = key(profiles[i]))
        named(i) == SelectSeq(rolesOf(i), LAMBDA p : p.AccountName # <<>>)
    IN  [n \in DOMAIN firsts |->
            [AccountID |-> profiles[firsts[n]].AccountID,
             AccountName |-> IF named(firsts[n]) = <<>> THEN <<>>
                             ELSE named(firsts[n])[1].AccountName,
             StartURL |-> profiles[firsts[n]].StartURL,
             Region |-> profiles[firsts[n]].Region,
             Roles |-> rolesOf(firsts[n])]]

\* accountItems: one item for each group, then "+ Configure new profile";
\* fv is the item's FilterValue, ref the index of the group.
accountItems(groups) ==
    LET RECURSIVE SpacedNames(_)
        SpacedNames(roles) ==
            IF roles = <<>> THEN <<>>
            ELSE <<" ">> \o roles[1].Name \o SpacedNames(Tail(roles))
    IN
    [i \in DOMAIN groups |->
        [kind |-> "account", ref |-> i, profile |-> <<>>,
         fv |-> (IF groups[i].AccountName # <<>>
                 THEN groups[i].AccountName \o <<" ">> ELSE <<>>)
                \o groups[i].AccountID \o <<" ">> \o groups[i].Region
                \o SpacedNames(groups[i].Roles)]]
    \o << [kind |-> "new", ref |-> 0, profile |-> <<>>,
           fv |-> <<"+", " ", "C", "o", "n", "f", "i", "g", "u", "r", "e", " ",
                    "n", "e", "w", " ", "p", "r", "o", "f", "i", "l", "e">>] >>

\* roleItems: "< Back to accounts", then one item for each role of the group.
roleItems(group) ==
    << [kind |-> "back", ref |-> 0, profile |-> <<>>,
        fv |-> <<"<", " ", "B", "a", "c", "k", " ", "t", "o", " ",
                 "a", "c", "c", "o", "u", "n", "t", "s">>] >>
    \o [i \in DOMAIN group.Roles |->
           [kind |-> "role", ref |-> 0, profile |-> <<group.Roles[i]>>,
            fv |-> group.Roles[i].RoleName \o <<" ">> \o group.Roles[i].Name]]

\* matchesFilter: the term is empty, or the lowered FilterValue contains the
\* lowered term.
matchesFilter(fv, term) ==
    \/ term = <<>>
    \/ \E i \in 1..(Len(fv) - Len(term) + 1) :
          SubSeq(ToLower(fv), i, i + Len(term) - 1) = ToLower(term)

\* applyFilter: the list shows filterItems(allItems, filterText) and the
\* cursor is on its first item.
applyFilter(m) ==
    [m EXCEPT !.items = SelectSeq(m.allItems, LAMBDA it : matchesFilter(it.fv, m.filterText)),
              !.cursor = 1]

\* setLevel: the level, its items, no filter, the cursor on the first item.
setLevel(m, level, items) ==
    [m EXCEPT !.level = level, !.allItems = items, !.filterText = <<>>,
              !.items = items, !.cursor = 1]

\* The list's own Update: the arrow keys move the cursor within the items;
\* no other key that reaches it changes the model.
listUpdate(m, key) ==
    CASE key = "down" -> [m EXCEPT !.cursor = IF @ < Len(m.items) THEN @ + 1 ELSE @]
      [] key = "up"   -> [m EXCEPT !.cursor = IF @ > 1 THEN @ - 1 ELSE @]
      [] OTHER        -> m

\* Enter on an account with several roles chooses the first of them.
onEnterTakesFirstRole(m) ==
    IF m.cursor \notin DOMAIN m.items THEN m
    ELSE LET item == m.items[m.cursor]
         IN  CASE item.kind = "new" -> [m EXCEPT !.isNew = TRUE, !.quitting = TRUE]
               [] item.kind = "back" ->
                    setLevel([m EXCEPT !.selected = 0], "accounts", accountItems(m.groups))
               [] item.kind = "account" ->
                    [m EXCEPT !.choice = <<m.groups[item.ref].Roles[1]>>, !.quitting = TRUE]
               [] OTHER -> [m EXCEPT !.choice = item.profile, !.quitting = TRUE]

\* selectorModel.Update, case tea.KeyEnter.
onEnter(m) ==
    IF m.cursor \notin DOMAIN m.items THEN listUpdate(m, "enter")
    ELSE LET item == m.items[m.cursor]
         IN  CASE item.kind = "new" -> [m EXCEPT !.isNew = TRUE, !.quitting = TRUE]
               [] item.kind = "back" ->
                    setLevel([m EXCEPT !.selected = 0], "accounts", accountItems(m.groups))
               [] item.kind = "account" ->
                    IF Len(m.groups[item.ref].Roles) = 1
                    THEN [m EXCEPT !.choice = <<m.groups[item.ref].Roles[1]>>,
                                   !.quitting = TRUE]
                    ELSE setLevel([m EXCEPT !.selected = item.ref], "roles",
                                  roleItems(m.groups[item.ref]))
               [] OTHER -> [m EXCEPT !.choice = item.profile, !.quitting = TRUE]

\* Escape always quits.
onEscapeQuits(m) == [m EXCEPT !.quitting = TRUE]

\* selectorModel.Update, case tea.KeyEscape.
onEscape(m) ==
    IF m.filterText # <<>> THEN applyFilter([m EXCEPT !.filterText = <<>>])
    ELSE IF m.level = "roles"
         THEN setLevel([m EXCEPT !.selected = 0], "accounts", accountItems(m.groups))
         ELSE [m EXCEPT !.quitting = TRUE]

\* The keys: a printable character (isFilterRune) is one character long.
IsRune(key) == key \in {"a", "n", "p", "q"}

\* selectorModel.Update for a key.
Update(m, key) ==
    IF IsRune(key)
    THEN IF key = "q" /\ m.filterText = <<>>
         THEN [m EXCEPT !.quitting = TRUE]
         ELSE applyFilter([m EXCEPT !.filterText = Append(@, key)])
    ELSE CASE key = "backspace" /\ Len(m.filterText) > 0 ->
                applyFilter([m EXCEPT !.filterText = SubSeq(@, 1, Len(@) - 1)])
           [] key = "enter"  -> onEnter(m)
           [] key = "esc"    -> onEscape(m)
           [] key = "ctrl+c" -> [m EXCEPT !.quitting = TRUE]
           [] OTHER          -> listUpdate(m, key)

\* Space toggles the entry at the position of the cursor.
toggledByPosition(m) ==
    IF m.cursor \in DOMAIN m.items THEN [m EXCEPT !.checked[m.cursor] = ~@] ELSE m

\* importModel.Update, case tea.KeySpace: the checkbox of the highlighted
\* item (item.index) is toggled.
toggled(m) ==
    IF m.cursor \in DOMAIN m.items
    THEN [m EXCEPT !.checked[m.items[m.cursor].ref] = ~@]
    ELSE m

\* importModel.Update for a key.
importUpdate(m, key) ==
    IF IsRune(key)
    THEN IF key = "a" /\ m.filterText = <<>>
         THEN [m EXCEPT !.checked = [i \in DOMAIN m.discovered |-> TRUE]]
         ELSE IF key = "n" /\ m.filterText = <<>>
         THEN [m EXCEPT !.checked = [i \in DOMAIN m.discovered |-> FALSE]]
         ELSE IF key = "q" /\ m.filterText = <<>>
         THEN [m EXCEPT !.cancelled = TRUE]
         ELSE applyFilter([m EXCEPT !.filterText = Append(@, key)])
    ELSE CASE key = "space" -> toggled(m)
           [] key = "backspace" /\ Len(m.filterText) > 0 ->
                applyFilter([m EXCEPT !.filterText = SubSeq(@, 1, Len(@) - 1)])
           [] key = "enter"  -> [m EXCEPT !.confirmed = TRUE]
           [] key = "esc"    ->
                IF m.filterText # <<>> THEN applyFilter([m EXCEPT !.filterText = <<>>])
                ELSE [m EXCEPT !.cancelled = TRUE]
           [] key = "ctrl+c" -> [m EXCEPT !.cancelled = TRUE]
           [] OTHER          -> listUpdate(m, key)

\* The return value while the selector runs.
Running == [st |-> "running", err |-> "", Profile |-> <<>>, IsNew |-> FALSE, selected |-> <<>>]

\* RunProfileSelector up to p.Run, and RunProfileImportSelector up to p.Run
\* (with no discovered profile it returns at once), for the saved profiles
\* handed to the one and the discovered ones, with the names allocated to
\* them, handed to the other.
InitSelector ==
    /\ NamesIdle
    /\ CacheIdle
    /\ AuthIdle
    /\ RunIdle
    /\ rc = NoRc
    /\ \E profiles \in
           LET P(name, id, accountName, role) ==
                   [Name |-> name, StartURL |-> RunURL,
                    Region |-> <<"e", "u", "-", "w", "e", "s", "t", "-", "1">>,
                    AccountID |-> id, AccountName |-> accountName, RoleName |-> role]
               da == P(<<"d", "-", "a">>, <<"1">>, <<"D">>, <<"A">>)
               dr == P(<<"d", "-", "r">>, <<"1">>, <<>>, <<"R">>)
               pa == P(<<"p", "-", "a">>, <<"2">>, <<"P">>, <<"A">>)
           IN  { <<>>, <<pa, da>>, <<da, dr, pa>>, <<dr, pa, da>> } :
         \/ LET items == accountItems(GroupByAccount(profiles))
            IN  sel = [kind |-> "profile", profiles |-> profiles,
                       groups |-> GroupByAccount(profiles),
                       allItems |-> items, items |-> items, cursor |-> 1,
                       filterText |-> <<>>, level |-> "accounts", selected |-> 0,
                       choice |-> <<>>, isNew |-> FALSE, quitting |-> FALSE,
                       key |-> "", ret |-> Running]
         \/ LET discovered == [i \in DOMAIN profiles |->
                                  [Profile |-> profiles[i], Name |-> profiles[i].Name]]
                items == [i \in DOMAIN discovered |->
                             [kind |-> "import", ref |-> i, profile |-> <<>>,
                              fv |-> (IF discovered[i].Profile.AccountName = <<>>
                                      THEN discovered[i].Profile.AccountID
                                      ELSE discovered[i].Profile.AccountName)
                                     \o <<" ">> \o discovered[i].Profile.RoleName
                                     \o <<" ">> \o discovered[i].Name
                                     \o <<" ">> \o discovered[i].Profile.AccountID]]
            IN  sel = [kind |-> "import", discovered |-> discovered,
                       allItems |-> items, items |-> items, cursor |-> 1,
                       filterText |-> <<>>,
                       checked |-> [i \in DOMAIN discovered |-> TRUE],
                       confirmed |-> FALSE, cancelled |-> FALSE, key |-> "",
                       ret |-> IF discovered = <<>>
                               THEN [Running EXCEPT !.st = "err",
                                                    !.err = "no profiles to import"]
                               ELSE Running]

\* The program hands the profile selector a key.
SelectorUpdate ==
    /\ sel.kind = "profile"
    /\ sel.ret.st = "running"
    /\ ~sel.quitting
    /\ \E key \in {"a", "p", "q", "backspace", "enter", "esc", "ctrl+c", "up", "down"} :
         /\ IsRune(key) => Len(sel.filterText) < MaxFilter
         /\ sel' = [Update(sel, key) EXCEPT !.key = key]
    /\ UNCHANGED <<rc, offTools>>

\* p.Run returned (Update returned tea.Quit, or the program failed):
\* RunProfileSelector returns.
SelectorReturn ==
    /\ sel.kind = "profile"
    /\ sel.ret.st = "running"
    /\ \/ /\ sel.quitting
          /\ sel' = [sel EXCEPT !.ret =
                        IF sel.choice = <<>> /\ ~sel.isNew
                        THEN [Running EXCEPT !.st = "err", !.err = "no profile selected"]
                        ELSE [Running EXCEPT !.st = "ok", !.Profile = sel.choice,
                                             !.IsNew = sel.isNew]]
       \/ /\ ~sel.quitting
          /\ sel' = [sel EXCEPT !.ret = [Running EXCEPT !.st = "err",
                                                        !.err = "selector failed"]]
    /\ UNCHANGED <<rc, offTools>>

\* The program hands the import selector a key.
ImportUpdate ==
    /\ sel.kind = "import"
    /\ sel.ret.st = "running"
    /\ ~sel.confirmed
    /\ ~sel.cancelled
    /\ \E key \in {"a", "n", "p", "q", "space", "backspace", "enter", "esc", "ctrl+c",
                   "up", "down"} :
         /\ IsRune(key) => Len(sel.filterText) < MaxFilter
         /\ sel' = [importUpdate(sel, key) EXCEPT !.key = key]
    /\ UNCHANGED <<rc, offTools>>

\* p.Run returned: RunProfileImportSelector collects the checked profiles.
ImportReturn ==
    /\ sel.kind = "import"
    /\ sel.ret.st = "running"
    /\ \/ /\ sel.confirmed \/ sel.cancelled
          /\ LET selected == SelectSeq([i \in DOMAIN sel.discovered |-> i],
                                       LAMBDA i : sel.checked[i])
             IN  sel' = [sel EXCEPT !.ret =
                           IF sel.cancelled
                           THEN [Running EXCEPT !.st = "err",
                                                !.err = "import selection cancelled"]
                           ELSE IF selected = <<>>
                           THEN [Running EXCEPT !.st = "err", !.err = "no profiles selected"]
                           ELSE [Running EXCEPT !.st = "ok", !.selected =
                                    [k \in DOMAIN selected |-> sel.discovered[selected[k]]]]]
       \/ /\ ~sel.confirmed
          /\ ~sel.cancelled
          /\ sel' = [sel EXCEPT !.ret = [Running EXCEPT !.st = "err",
                                                        !.err = "import selector failed"]]
    /\ UNCHANGED <<rc, offTools>>

SpecSelector ==
    InitSelector /\ [][SelectorUpdate \/ SelectorReturn \/ ImportUpdate \/ ImportReturn]_vars

(***************************************************************************)
(* C1: when CreateToken answers "authorization pending" on its first N-1   *)
(* calls and succeeds on call N, Authenticate has issued exactly N         *)
(* CreateToken calls and returned the access token of the N-th answer; a   *)
(* pending (or slow-down) answer is never what Authenticate returns.       *)
(***************************************************************************)
C1_PollsUntilApproved ==
    /\ srv.kind = "ok" =>
         /\ apc = "Done"
         /\ oidc.createToken = srv.at
         /\ result.kind = "token"
         /\ result.token = srv.at
    /\ result.kind = "err" =>
         ~(isAuthPending(result.cause) \/ isSlowDown(result.cause))

\* Two pending answers, then success on the third call, with no timeout and
\* no cancellation: the token of the third answer was returned.
C1_Witness ==
    /\ apc = "Done"
    /\ srv.at = 3
    /\ srv.kind = "ok"
    /\ result.kind = "token" /\ result.token = 3
    /\ ~cancelled /\ ~timeoutBuf

(***************************************************************************)
(* C2: if the context is cancelled while Authenticate is polling, no       *)
(* CreateToken call is started after the cancellation has fired, and the   *)
(* error Authenticate returns from its wait is the cancellation error, in  *)
(* every interleaving of the cancellation with the interval timer and with *)
(* a CreateToken call in flight.  (A return that hands on the answer of    *)
(* the call that was in flight when the cancellation fired is not held     *)
(* against the claim.)                                                     *)
(***************************************************************************)
C2_CancelStopsPolling ==
    /\ lateCalls.cancel = 0
    /\ (apc = "Done" /\ cancelled /\ result.kind = "err" /\ result.cause = "") =>
         result.err = "context canceled"

(***************************************************************************)
(* C3: ReadSSOCache never hands out a token that could expire within the   *)
(* buffer: whenever it returns a token, now + 5 minutes < expiresAt holds  *)
(* strictly at the time of the read (so for every expiresAt in the past or *)
(* not more than 5 minutes after now it returns absent).                   *)
(***************************************************************************)
C3_ReadOutsideBufferStrict ==
    (lastRead # None /\ lastRead.token # None) =>
        lastRead.at + CacheBuffer < lastRead.token.ExpiresAt

(***************************************************************************)
(* C4: in every run of the pipeline Authenticate is started for a start    *)
(* URL only when the token cache holds no valid token for it; a valid      *)
(* cached token supplies the token without any OIDC call, in runs for a    *)
(* saved profile and in runs that discover accounts and roles alike.       *)
(***************************************************************************)
C4_AuthOnlyWithoutCachedToken ==
    /\ authLog.cached = 0
    /\ token.src = "cache" => authLog.starts = 0

(***************************************************************************)
(* C5: the names GenerateUniqueProfileNames returns for one batch are      *)
(* pairwise distinct, whatever the account and role names are, also when   *)
(* a role or account name already ends in a numeric suffix such as "-2".   *)
(***************************************************************************)
C5_NamesPairwiseDistinct ==
    npc = "done" =>
        \A i, j \in 1..Len(names) : i # j => names[i] # names[j]

(***************************************************************************)
(* C6: discovery is all-or-nothing.  Once a ListAccounts page or a role     *)
(* request of any account has failed, the discovery flow ends with an      *)
(* error and no profile of the run is named, offered for import or written *)
(* to the profile store, also not those of the accounts whose roles had    *)
(* been fetched already.                                                   *)
(***************************************************************************)
C6_DiscoveryAllOrNothing ==
    (gerr.acct # 0 \/ out.err = "failed to discover accounts") =>
        /\ allProfiles = <<>>
        /\ out.saved = <<>>
        /\ store \in StoreChoices
        /\ rpc \in {"fanout", "done"}
        /\ rpc = "done" =>
              out.err \in {"failed to discover accounts"} \cup
                          {RolesErr(a) : a \in 1..MaxAccounts}

C6_Witness ==
    /\ rpc = "done"
    /\ out.err = RolesErr(2)
    /\ gerr.acct = 2
    /\ g[1].st = "done"
    /\ Len(results[1].roles) = 3

(***************************************************************************)
(* C7: at most 5 ListAccountRoles fetches are in flight at any moment,     *)
(* whatever the number of accounts; a further fetch is started only from a *)
(* state with fewer than 5 in flight (so a sixth only after one returned); *)
(* and once the fan-out has begun, either a fetch fails or the fetch of    *)
(* every account is eventually started.                                    *)
(***************************************************************************)
C7_AtMostFiveInFlight ==
    /\ [](Cardinality(InFlight) <= FetchLimit)
    /\ [][next' > next => Cardinality(InFlight) < FetchLimit]_vars
    /\ (rpc = "fanout") ~> (gerr.acct # 0 \/ \A i \in DOMAIN g : g[i].reqs > 0)

C7_Witness ==
    /\ Len(accounts) > FetchLimit
    /\ g[FetchLimit + 1].st = "req"
    /\ Cardinality(InFlight) = FetchLimit
    /\ gerr.acct = 0

(***************************************************************************)
(* C8: after the first role fetch has failed, the context of the fetches   *)
(* in flight is cancelled, and no catalog request is sent for an account   *)
(* whose fetch had not been started when that failure happened.            *)
(***************************************************************************)
C8_NoRequestAfterFirstFailure ==
    gerr.acct # 0 => \A i \in DOMAIN g : i > gerr.started => g[i].reqs = 0

(***************************************************************************)
(* C9: whatever the order in which the concurrent fetches finish, the      *)
(* flattened list of profiles is the same: the accounts come in the order  *)
(* of ListAccounts, and the roles of each account in the order the         *)
(* provider returned them.                                                 *)
(***************************************************************************)
C9_FlattenedInAccountOrder ==
    allProfiles # <<>> =>
        /\ \A p, q \in 1..Len(allProfiles) :
              p < q => allProfiles[p].AccountID <= allProfiles[q].AccountID
        /\ \A k \in 1..Len(accounts) :
              LET OfAccount(pr) == pr.AccountID = accounts[k].AccountID
                  mine == SelectSeq(allProfiles, OfAccount)
                  listed == RolesAt(accounts[k].AccountID)
              IN  [j \in 1..Len(mine) |-> mine[j].RoleName]
                    = [j \in 1..Len(listed) |-> listed[j].RoleName]

C9_Witness ==
    /\ rpc = "import"
    /\ Len(accounts) >= 2
    /\ g[2].overtook
    /\ Len(allProfiles) >= 4

(***************************************************************************)
(* C10: every profile of a discovery run carries the ID and the name of an *)
(* account ListAccounts returned in that run, and a role name the role     *)
(* listing of exactly that account returned; in every interleaving the     *)
(* roles in a slot are those of the slot's account, and the slots are read *)
(* only when every fetch has finished.                                     *)
(***************************************************************************)
C10_RolesBelongToTheirAccount ==
    /\ \A p \in 1..Len(allProfiles) :
          /\ \E k \in 1..Len(accounts) :
                /\ accounts[k].AccountID = allProfiles[p].AccountID
                /\ accounts[k].AccountName = allProfiles[p].AccountName
          /\ \E r \in 1..Len(RolesAt(allProfiles[p].AccountID)) :
                RolesAt(allProfiles[p].AccountID)[r].RoleName = allProfiles[p].RoleName
    /\ \A i \in DOMAIN results : \A r \in 1..Len(results[i].roles) :
          results[i].roles[r].AccountID = results[i].account.AccountID
    /\ allProfiles # <<>> => \A i \in DOMAIN g : g[i].st = "done"
    /\ \A s \in 1..Len(out.saved) : \E p \in 1..Len(allProfiles) : out.saved[s] = allProfiles[p]

C10_Witness ==
    /\ rpc = "done"
    /\ Len(out.saved) >= 4
    /\ g[2].overtook

(***************************************************************************)
(* C11: when CreateToken answers "authorization pending" every time (each  *)
(* call returning) and the context is never cancelled, Authenticate does   *)
(* not poll forever: it returns the timed-out error, and not before the    *)
(* absolute timeout of the poll loop has elapsed.                          *)
(***************************************************************************)
C11_PendingForeverTimesOut ==
    /\ [](result.err = "authorization timed out after 5 minutes" => elapsed >= PollTimeout)
    /\ (apc = "InFlight") ~>
          \/ srv.kind # "none"
          \/ cancelled
          \/ /\ apc = "Done"
             /\ result = ErrResult("authorization timed out after 5 minutes", "")

C11_Witness ==
    /\ apc = "Done"
    /\ result = ErrResult("authorization timed out after 5 minutes", "")
    /\ srv.kind = "none"
    /\ ~cancelled
    /\ oidc.createToken >= 3

(***************************************************************************)
(* C12: no CreateToken call is started after the absolute timeout of the   *)
(* poll loop has fired (each wait takes the one branch that fired first),  *)
(* and a wait that ends with an error reports a timeout and a cancellation *)
(* by different errors.                                                    *)
(***************************************************************************)
C12_NoCallAfterTimeout ==
    /\ lateCalls.timeout = 0
    /\ (apc = "Done" /\ result.kind = "err" /\ result.cause = "") =>
          /\ result.err \in {"context canceled", "authorization timed out after 5 minutes"}
          /\ result.err = "authorization timed out after 5 minutes" => elapsed >= PollTimeout
          /\ result.err = "context canceled" => cancelled

(***************************************************************************)
(* C17: GenerateUniqueProfileNames returns one name per profile, in the    *)
(* order of the input; the k-th occurrence (in input order) of a base name *)
(* that occurs more than once gets the bare base name for k = 1 and        *)
(* base-k for k >= 2; a base name that occurs once is returned unchanged.  *)
(***************************************************************************)
C17_SuffixByOccurrence ==
    npc = "done" =>
        /\ Len(names) = Len(batch)
        /\ \A i \in 1..Len(batch) :
              LET base(j) == SuggestProfileName(batch[j].AccountName, batch[j].RoleName)
                  m == Cardinality({j \in 1..Len(batch) : base(j) = base(i)})
                  k == Cardinality({j \in 1..i : base(j) = base(i)})
              IN  names[i] = IF m > 1 /\ k >= 2
                             THEN base(i) \o <<"-">> \o Itoa(k)
                             ELSE base(i)

C17_Witness ==
    /\ npc = "done"
    /\ Len(batch) = 3
    /\ batch[1].AccountName = <<"D">>
    /\ names = << <<"d", "-", "a">>, <<"d", "-", "a", "-", "2">>, <<"d", "-", "a", "-", "3">> >>

C14_OtherErrorEndsPolling ==
    /\ []( srv.last \in {"denied", "ctxerr"} =>
             (/\ apc = "Done"
              /\ result = ErrResult("failed to create token", ErrorText(srv.last))) )
    /\ [][srv.last \in {"denied", "ctxerr"} => oidc' = oidc]_vars

C14_Witness ==
    /\ apc = "Done"
    /\ srv.last = "denied"
    /\ srv.slow = 1
    /\ oidc.createToken = 3
    /\ result.cause = "AccessDeniedException"

(***************************************************************************)
(* C15: the steps of Authenticate occur along the forward path only:       *)
(* RegisterClient once, StartDeviceAuthorization at most once and only     *)
(* after RegisterClient succeeded, the device-auth callback once and only  *)
(* after StartDeviceAuthorization succeeded, CreateToken only after the    *)
(* callback; no earlier step is made again once a later one has begun; and *)
(* Authenticate ends with a token, with an error of the service (denial or *)
(* transport), timed out, or cancelled.                                    *)
(***************************************************************************)
C15_ForwardPathOnly ==
    /\ []( /\ oidc.register = (IF apc = "Register" THEN 0 ELSE 1)
           /\ oidc.startAuth = (IF apc \in {"Register", "StartAuth"}
                                   \/ result.err = "failed to register client"
                                THEN 0 ELSE 1)
           /\ oidc.callback = (IF apc \in {"Register", "StartAuth", "Notify"}
                                  \/ result.err \in {"failed to register client",
                                                     "failed to start device authorization"}
                               THEN 0 ELSE 1)
           /\ (oidc.createToken >= 1 => oidc.callback = 1)
           /\ (apc = "Done" =>
                 \/ result.kind = "token"
                 \/ /\ result.kind = "err"
                    /\ result.err \in {"failed to register client",
                                       "failed to start device authorization",
                                       "failed to create token",
                                       "authorization timed out after 5 minutes",
                                       "context canceled"}) )
    /\ [][ /\ oidc'.register >= oidc.register
            /\ oidc'.startAuth >= oidc.startAuth
            /\ oidc'.callback >= oidc.callback
            /\ oidc'.createToken >= oidc.createToken
            /\ (oidc.createToken >= 1 =>
                  /\ oidc'.register = oidc.register
                  /\ oidc'.startAuth = oidc.startAuth
                  /\ oidc'.callback = oidc.callback)
            /\ (apc = "Done" => (apc' = "Done" /\ result' = result /\ oidc' = oidc))
          ]_vars

C15_Witness ==
    /\ apc = "Done"
    /\ result.err = "failed to start device authorization"
    /\ oidc = [register |-> 1, startAuth |-> 1, callback |-> 0, browser |-> 0, createToken |-> 0,
            launch |-> "none"]

(***************************************************************************)
(* C16: if RegisterClient fails, Authenticate returns the error after that *)
(* one call: the registration is not tried again, no                       *)
(* StartDeviceAuthorization or CreateToken call is made, and the           *)
(* device-auth callback is not invoked.                                    *)
(***************************************************************************)
C16_RegisterFailureIsFinal ==
    result.err = "failed to register client" =>
        /\ apc = "Done"
        /\ result.kind = "err"
        /\ oidc = [register |-> 1, startAuth |-> 0, callback |-> 0, browser |-> 0, createToken |-> 0,
            launch |-> "none"]

C16_Witness ==
    /\ apc = "Done"
    /\ result = ErrResult("failed to register client", "register")
    /\ oidc.register = 1
    /\ oidc.startAuth = 0

(***************************************************************************)
(* C18: round trip of the token cache.  When the last WriteSSOCache        *)
(* succeeded and its expiresAt is more than 5 minutes after the time of a  *)
(* ReadSSOCache of the same start URL, the read returns a token with the   *)
(* start URL, region and access token written, and with the expiresAt      *)
(* written, to the second.                                                 *)
(***************************************************************************)
C18_RoundTrip ==
    (/\ lastRead # None
     /\ wr.st = "ok"
     /\ lastRead.url = wr.url
     /\ wr.exp > lastRead.at + CacheBuffer) =>
        /\ lastRead.token # None
        /\ lastRead.token.StartURL = wr.url
        /\ lastRead.token.Region = wr.region
        /\ lastRead.token.AccessToken = wr.token
        /\ lastRead.token.ExpiresAt \div TicksPerSec = wr.exp \div TicksPerSec

(***************************************************************************)
(* C19: ReadSSOCache reports no error and changes nothing: a read leaves   *)
(* the cache files as they were, and it returns absent for a missing file, *)
(* for content that is no JSON, for JSON without an access token, for an   *)
(* expiresAt that cannot be parsed and for a token that has expired or     *)
(* expires within the buffer.                                              *)
(***************************************************************************)
C19_ReadNeverFailsNorWrites ==
    [][lastRead' # None =>
         /\ files' = files
         /\ LET data == files[ssoCacheFilepath(lastRead'.url)]
            IN  (\/ data.kind \in {"nofile", "raw"}
                 \/ data.accessToken = ""
                 \/ data.expiresAt.layout = "bad"
                 \/ data.expiresAt.sec * TicksPerSec < lastRead'.at + CacheBuffer)
                => lastRead'.token = None]_vars

C19_Witness ==
    /\ lastRead # None
    /\ lastRead.token = None
    /\ files[ssoCacheFilepath(lastRead.url)].kind = "json"
    /\ files[ssoCacheFilepath(lastRead.url)].accessToken = ""

(***************************************************************************)
(* C20: the cache file of a start URL is never partially written: at every *)
(* moment during and after a WriteSSOCache, also one that fails part-way,  *)
(* a reader finds the complete former content or the complete new content, *)
(* never an empty or truncated file.                                       *)
(***************************************************************************)
C20_NeverPartiallyWritten ==
    \A p \in DOMAIN files : files[p].kind = "raw" => files[p].text # ""

(***************************************************************************)
(* C21: last write wins per start URL.  After a successful WriteSSOCache   *)
(* the cache file of its start URL holds exactly the entry of that write,  *)
(* whatever earlier writes stored there, and a ReadSSOCache of that start  *)
(* URL returns the start URL, region, access token and expiresAt (to the   *)
(* second) of that write, or absent when the stored expiresAt fails the    *)
(* 5-minute buffer; it never returns a value of an earlier write.          *)
(***************************************************************************)
C21_LastWriteWins ==
    wr.st = "ok" =>
        /\ files[ssoCacheFilepath(wr.url)] = CacheData(wr.url, wr.region, wr.token, wr.exp)
        /\ (lastRead # None /\ lastRead.url = wr.url) =>
              IF Before((wr.exp \div TicksPerSec) * TicksPerSec, lastRead.at + CacheBuffer)
              THEN lastRead.token = None
              ELSE /\ lastRead.token # None
                   /\ lastRead.token.StartURL = wr.url
                   /\ lastRead.token.Region = wr.region
                   /\ lastRead.token.AccessToken = wr.token
                   /\ lastRead.token.ExpiresAt \div TicksPerSec = wr.exp \div TicksPerSec

C21_Witness ==
    /\ wr.st = "ok"
    /\ wr.over
    /\ lastRead # None
    /\ lastRead.url = wr.url
    /\ lastRead.token # None
    /\ lastRead.token.AccessToken = wr.token

(***************************************************************************)
(* C22: the cache file path is a function of the start URL that gives      *)
(* distinct start URLs distinct paths, and every step of a WriteSSOCache   *)
(* for one start URL leaves the file of every other start URL, and what    *)
(* ReadSSOCache returns for it, unchanged.                                 *)
(***************************************************************************)
C22_WriteLeavesOtherURLs ==
    /\ [](\A u, v \in StartURLs :
             u # v => ssoCacheFilepath(u) # ssoCacheFilepath(v))
    /\ [][wr' # wr =>
            \A v \in StartURLs \ {wr'.url} :
                /\ files'[ssoCacheFilepath(v)] = files[ssoCacheFilepath(v)]
                /\ ReadSSOCache(files', v, clock') = ReadSSOCache(files, v, clock)]_vars

C22_Witness ==
    /\ wr.st = "ok"
    /\ lastRead # None
    /\ lastRead.url # wr.url
    /\ lastRead.token # None
    /\ lastRead.token.AccessToken \in {w[2] : w \in WriteChoices}

(***************************************************************************)
(* C23: token reuse across runs.  When an earlier run authenticated for a  *)
(* start URL and its cache write succeeded (and no write since has emptied *)
(* the file), a later run that uses a saved                                *)
(* profile with that start URL while the cached token is more than 5       *)
(* minutes from its expiry goes from the cache check straight to the fetch *)
(* of the credentials with the cached access token in hand, and in that    *)
(* run no Authenticate (RegisterClient, StartDeviceAuthorization,          *)
(* CreateToken) is started.                                                *)
(***************************************************************************)
C23_TokenReusedAcrossRuns ==
    /\ [][(/\ rpc = "cache"
           /\ flow = "profile"
           /\ authLog.wrote # None
           /\ authLog.wrote.run < authLog.run
           /\ authLog.wrote.url = conn.StartURL
           /\ clock + CacheBuffer < (authLog.wrote.exp \div TicksPerSec) * TicksPerSec) =>
             /\ rpc' = "fetch"
             /\ token'.src = "cache"
             /\ token'.AccessToken = authLog.wrote.token
             /\ authLog' = authLog]_vars
    /\ []((/\ rpc \in {"fetch", "done"}
           /\ flow = "profile"
           /\ authLog.wrote # None
           /\ authLog.wrote.run < authLog.run
           /\ authLog.wrote.url = conn.StartURL
           /\ clock + CacheBuffer < (authLog.wrote.exp \div TicksPerSec) * TicksPerSec) =>
             /\ authLog.starts = 0
             /\ token.src = "cache"
             /\ token.AccessToken = authLog.wrote.token)

C23_Witness ==
    /\ authLog.run = 2
    /\ authLog.wrote # None
    /\ authLog.wrote.run = 1
    /\ flow = "profile"
    /\ conn.StartURL = authLog.wrote.url
    /\ rpc = "done"
    /\ out.exported
    /\ token.src = "cache"
    /\ token.AccessToken = authLog.wrote.token
    /\ authLog.starts = 0

(***************************************************************************)
(* C24: a failing WriteSSOCache never aborts the flow.  When the cache     *)
(* write after a successful Authenticate fails, the warning is printed, no *)
(* error is returned, and the run goes on with the token Authenticate      *)
(* returned: to the fetch of the credentials when a saved profile is used, *)
(* to the listing of the accounts in the discovery flow.                   *)
(***************************************************************************)
C24_CacheWriteFailureIsAWarning ==
    /\ [][(/\ rpc = "write"
           /\ rpc' # "write"
           /\ files'[ssoCacheFilepath(conn.StartURL)] #
                  CacheData(conn.StartURL, conn.Region, token.AccessToken, token.ExpiresAt)) =>
             /\ warned'
             /\ out'.err = ""
             /\ ~out'.exported
             /\ "warning" \in out'.stderr
             /\ token' = token
             /\ token.src = "auth"
             /\ rpc' = (IF flow = "profile" THEN "fetch" ELSE "accounts")]_vars
    /\ [](warned => token.src = "auth")

C24_Witness ==
    /\ warned
    /\ flow = "profile"
    /\ rpc = "done"
    /\ out.err = ""
    /\ out.exported
    /\ token.src = "auth"
    /\ ReadSSOCache(files, conn.StartURL, clock) = None

(***************************************************************************)
(* C25: ListAccounts and ListAccountRoles send one request per page, the   *)
(* first for the first page and each later one for the page the answer     *)
(* before pointed to, stop at the first answer without a NextToken, and    *)
(* return all items of the catalog in the catalog's order: while a listing *)
(* runs it has sent as many requests as the page it is at and holds the    *)
(* items of the pages before, and when it has returned it sent one request *)
(* per page and holds every item.                                          *)
(***************************************************************************)
C25_OneRequestPerPageInOrder ==
    LET all == [i \in 1..provider |-> AccountAt(i)]
        pagesOf(s, z) == IF Len(s) = 0 THEN 1 ELSE (Len(s) + z - 1) \div z
    IN  /\ (rpc = "accounts" /\ out.err = "") =>
               accounts = SubSeq(all, 1, (page - 1) * AccountPageSize)
        /\ rpc \in {"fanout", "import"} =>
               /\ accounts = all
               /\ page = pagesOf(all, AccountPageSize)
        /\ \A i \in DOMAIN g :
               /\ g[i].st = "req" =>
                     /\ g[i].reqs = g[i].page
                     /\ g[i].roles = SubSeq(RolesAt(g[i].acct), 1,
                                            (g[i].page - 1) * RolePageSize)
               /\ g[i].st = "done" =>
                     /\ g[i].reqs = pagesOf(RolesAt(g[i].acct), RolePageSize)
                     /\ g[i].roles = RolesAt(g[i].acct)
                     /\ results[i].roles = RolesAt(g[i].acct)

C25_Witness ==
    /\ rpc = "import"
    /\ page = 2
    /\ Len(accounts) = MaxAccounts
    /\ g[1].st = "done"
    /\ g[1].reqs = 2
    /\ Len(results[1].roles) = 3

(***************************************************************************)
(* C26: when the request for a page, the first or a later one, fails,      *)
(* ListAccounts and ListAccountRoles return the error and no item: the     *)
(* items of the pages fetched before are dropped, and the listing sends no *)
(* further request.                                                        *)
(***************************************************************************)
C26_FailedListingReturnsNothing ==
    /\ [](out.err = "failed to discover accounts" => (accounts = <<>> /\ rpc = "done"))
    /\ [](\A i \in DOMAIN g :
             g[i].st = "failed" => (g[i].roles = <<>> /\ results[i].roles = <<>>))
    /\ [][/\ out.err = "failed to discover accounts" => page' = page
          /\ \A i \in DOMAIN g :
                g[i].st = "failed" => (i \in DOMAIN g' /\ g'[i] = g[i])]_vars

C26_Witness ==
    /\ rpc = "fanout"
    /\ g[1].st = "failed"
    /\ g[1].reqs = 2
    /\ g[1].page = 2
    /\ g[1].roles = <<>>

(***************************************************************************)
(* C27: when several role fetches fail, the discovery flow returns the     *)
(* error of the fetch that failed first: the error the errgroup keeps is   *)
(* set by the first fetch that fails and is left alone by every fetch that *)
(* fails after it, and the error the flow returns is the one of that       *)
(* account.                                                                *)
(***************************************************************************)
C27_FirstErrorIsReturned ==
    [][/\ \A i \in DOMAIN g :
            (g[i].st = "req" /\ i \in DOMAIN g' /\ g'[i].st = "failed") =>
                IF \E j \in DOMAIN g : g[j].st = "failed"
                THEN gerr' = gerr
                ELSE gerr'.acct = i
       /\ (rpc = "fanout" /\ rpc' = "done" /\ \E j \in DOMAIN g : g[j].st = "failed") =>
            /\ gerr.acct # 0
            /\ out'.err = RolesErr(accounts[gerr.acct].AccountID)]_vars

C27_Witness ==
    /\ rpc = "done"
    /\ \E i, j \in DOMAIN g :
          /\ i < j
          /\ g[i].st = "failed"
          /\ g[j].st = "failed"
          /\ gerr.acct = j
          /\ out.err = RolesErr(accounts[j].AccountID)

C29_CallsOneIntervalApart ==
    [][oidc'.createToken = oidc.createToken + 1 =>
         IF oidc.createToken = 0
         THEN elapsed' = 0
         ELSE elapsed' - lateCalls.at >= ticker.period]_vars

(***************************************************************************)
(* C30: SuggestProfileName(accountName, roleName) is the account label,    *)
(* a hyphen and the role name, every letter in lower case and every space  *)
(* replaced by a hyphen, where the account label is accountName, or "aws"  *)
(* when accountName is empty; the result has no upper-case letter and no   *)
(* space.  (Judged on the names GenerateUniqueProfileNames returns: each   *)
(* begins with the suggested name, and the first profile with a suggested  *)
(* name gets exactly that name.)                                           *)
(***************************************************************************)
C30_SuggestedNameShape ==
    npc = "done" =>
        \A i \in 1..Len(batch) :
            LET src(j) == (IF batch[j].AccountName = <<>>
                           THEN <<"a", "w", "s">>
                           ELSE batch[j].AccountName) \o <<"-">> \o batch[j].RoleName
                want(j) == [k \in 1..Len(src(j)) |->
                               IF src(j)[k] = " " THEN "-" ELSE ToLowerCh(src(j)[k])]
            IN  /\ Len(names[i]) >= Len(want(i))
                /\ SubSeq(names[i], 1, Len(want(i))) = want(i)
                /\ (\A j \in 1..(i - 1) : want(j) # want(i)) => names[i] = want(i)
                /\ \A k \in 1..Len(names[i]) : names[i][k] \notin {"A", "D", "P", "R", " "}

C30_Witness ==
    /\ npc = "done"
    /\ Len(batch) = 2
    /\ batch[1].AccountName = <<>>
    /\ batch[1].RoleName = <<"R", " ", "2">>
    /\ names[1] = <<"a", "w", "s", "-", "r", "-", "2">>
    /\ batch[2].AccountName = <<"d", " ", "p">>
    /\ batch[2].RoleName = <<"A">>
    /\ names[2] = <<"d", "-", "p", "-", "a">>

(***************************************************************************)
(* C31: saving a profile replaces the record under its name.  After        *)
(* SaveProfile(p), whatever the config file held under p.Name before,      *)
(* LoadProfiles returns exactly one profile named p.Name, and it is p,     *)
(* field by field: nothing of the record before survives.                  *)
(***************************************************************************)
C31_SaveReplacesRecord ==
    (out.err = "" /\ Len(out.saved) = 1) =>
        LET p == out.saved[1]
        IN  {q \in LoadProfiles(store) : q.Name = p.Name} = {p}

(***************************************************************************)
(* C32: SaveProfile and SaveProfiles change only the sections of the       *)
(* profiles they save: every other section of the config file, of saws or  *)
(* of another tool, is there afterwards with the same keys and values (and *)
(* a failed call changes nothing); a section without SSO keys is never     *)
(* among the profiles LoadProfiles returns.                                *)
(***************************************************************************)
C32_SaveLeavesOtherSections ==
    /\ [][\A n \in DOMAIN store :
            n \notin {sectionName(out'.saved[i].Name) : i \in 1..Len(out'.saved)} =>
                (n \in DOMAIN store' /\ store'[n] = store[n])]_vars
    /\ [](\A n \in DOMAIN store :
            DOMAIN store[n] \cap {"sso_start_url", "sso_region", "sso_account_id",
                                  "sso_account_name", "sso_role_name"} = {} =>
                \A q \in LoadProfiles(store) : q.Name # profileNameFromSection(n))

C32_Witness ==
    /\ Len(out.saved) = 1
    /\ out.saved[1].Name = DefaultName
    /\ out.saved[1] \in LoadProfiles(store)
    /\ sectionName(<<"w">>) \in DOMAIN store
    /\ DOMAIN store[sectionName(<<"w">>)] = {"region", "output"}
    /\ sectionName(SavedProfile.Name) \in DOMAIN store
    /\ SavedProfile \in LoadProfiles(store)

\* C38: when a discovery flow has saved k profiles confirmed by the user, the
\* store holds k distinct records for them, one for each confirmed
\* account/role pair: every confirmed pair is a record of the store under
\* the name it was confirmed with, none replaced by another of the batch.
C38_SavedBatchAllStored ==
    (flow = "discovery" /\ rpc = "done" /\ out.saved # <<>>)
        => /\ \A i \in 1..Len(out.saved) :
                \E q \in LoadProfiles(store) :
                    /\ q.Name = out.saved[i].Name
                    /\ q.AccountID = out.saved[i].AccountID
                    /\ q.RoleName = out.saved[i].RoleName
           /\ Cardinality({q \in LoadProfiles(store) :
                              \E i \in 1..Len(out.saved) :
                                  /\ q.AccountID = out.saved[i].AccountID
                                  /\ q.RoleName = out.saved[i].RoleName})
                = Len(out.saved)

(***************************************************************************)
(* C35: what Authenticate does and returns does not depend on the browser  *)
(* launch.  Whether openBrowser returns nil or an error, the step from the *)
(* device authorization makes the same calls (the callback, the launch,    *)
(* the first CreateToken), goes on to poll and leaves the result open; and *)
(* when Authenticate has returned after a failed launch, the result is the *)
(* one the polling gave: an answer of CreateToken was received, a          *)
(* successful answer gives its token, and no error names the launch.       *)
(***************************************************************************)
C35_LaunchOutcomeIgnored ==
    /\ [][ (apc = "Notify" /\ apc' # "Notify") =>
              /\ oidc'.launch \in LaunchChoices
              /\ \A launch \in LaunchChoices :
                    /\ apc' = AfterLaunch(launch)
                    /\ oidc' = [oidc EXCEPT !.callback = @ + 1, !.browser = @ + 1,
                                            !.createToken = @ + 1,
                                            !.launch = oidc'.launch]
              /\ result' = result ]_vars
    /\ []((apc = "Done" /\ oidc.launch = "failed") =>
              /\ srv.last # "none"
              /\ result.kind # "none"
              /\ result.cause \notin {"browser", "launch"}
              /\ (srv.last = "ok" => result = TokenResult(result.token, result.expiresAt)))
    /\ [](oidc.launch = "none" <=> oidc.browser = 0)

\* Authenticate returned a token although the browser could not be opened.
C35_Witness ==
    /\ apc = "Done"
    /\ oidc.launch = "failed"
    /\ result.kind = "token"
    /\ oidc.createToken >= 2

(***************************************************************************)
(* C33: in --export mode standard output stays clean.  Along every path of *)
(* run the only thing written to standard output is the block of export    *)
(* commands, once, and only when the credentials were fetched; the banner, *)
(* the prompts, the device-auth information, the status lines and the      *)
(* warnings are on standard error; a run that returns an error, or that    *)
(* ends after the discovery saved profiles, wrote nothing to it.           *)
(***************************************************************************)
C33_StdoutCleanInExportMode ==
    out.export =>
        /\ out.stdout \in {<<>>, <<"export">>}
        /\ (out.stdout = <<"export">> <=> out.exported)
        /\ (out.exported => rpc = "done" /\ out.err = "" /\ token # NoToken)
        /\ ((rpc = "done" /\ (out.err # "" \/ out.saved # <<>>)) => out.stdout = <<>>)
        /\ (rpc # "resolve" => "banner" \in out.stderr)
        /\ (rpc \in {"accounts", "fanout", "import"} =>
               {"prompt", "device-auth", "status"} \subseteq out.stderr)
        /\ (warned => "warning" \in out.stderr)

\* An export run that authenticated, could not write the cache, and wrote
\* the export block.
C33_Witness ==
    /\ out.export
    /\ rpc = "done"
    /\ out.stdout = <<"export">>
    /\ {"banner", "device-auth", "status", "warning", "display"} \subseteq out.stderr

(***************************************************************************)
(* C34: Install is idempotent on the rc file.  After one or more Install   *)
(* calls of which the last one that succeeded wrote the block, the file    *)
(* holds one begin marker and one end marker, between them the wrapper     *)
(* with the binary path of that Install, and the text that was in the file *)
(* before the first Install is still there, in its order.                  *)
(***************************************************************************)
C34_InstallIdempotent ==
    rc.last # "" =>
        LET c == rc.content
            marks == {i \in DOMAIN c : c[i] \in {beginMarker, endMarker}}
            text(q) == SelectSeq(q, LAMBDA t : t \notin {"\n", beginMarker, endMarker}
                                               /\ t # rc.last)
        IN  /\ Cardinality({i \in DOMAIN c : c[i] = beginMarker}) = 1
            /\ Cardinality({i \in DOMAIN c : c[i] = endMarker}) = 1
            /\ \E i \in DOMAIN c :
                  /\ i + 2 \in DOMAIN c
                  /\ SubSeq(c, i, i + 2) = <<beginMarker, rc.last, endMarker>>
            /\ text(c) = text(rc.orig)

(***************************************************************************)
(* C36: the Escape key of the profile selector.  With a filter text it     *)
(* clears the filter and does nothing else (the level, the account drilled *)
(* into and the selection stay, the list shows all items of the level);    *)
(* with no filter at the role level it goes back to the account level with *)
(* all its items; otherwise it quits with nothing selected.  The selector  *)
(* is at the role level exactly when an account drilled into is recorded.  *)
(***************************************************************************)
C36_EscapePriority ==
    /\ [][(/\ sel.kind = "profile"
           /\ ~sel.quitting
           /\ sel' # sel
           /\ sel'.ret = sel.ret
           /\ sel'.key = "esc") =>
             IF sel.filterText # <<>>
             THEN sel' = [sel EXCEPT !.filterText = <<>>, !.items = sel.allItems,
                                     !.cursor = 1, !.key = "esc"]
             ELSE IF sel.level = "roles"
             THEN /\ sel'.level = "accounts"
                  /\ sel'.selected = 0
                  /\ sel'.items = accountItems(sel.groups)
                  /\ sel'.allItems = sel'.items
                  /\ sel'.filterText = <<>>
                  /\ ~sel'.quitting
                  /\ sel'.choice = <<>>
                  /\ ~sel'.isNew
             ELSE /\ sel'.quitting
                  /\ sel'.choice = <<>>
                  /\ ~sel'.isNew
                  /\ sel'.level = "accounts"]_vars
    /\ [](sel.kind = "profile" => (sel.level = "roles" <=> sel.selected # 0))

\* Escape at the role level with a filter text: the filter is gone, the
\* selector is still at the role level of the account drilled into.
C36_Witness ==
    /\ sel.kind = "profile"
    /\ sel.key = "esc"
    /\ sel.level = "roles"
    /\ sel.selected # 0
    /\ sel.filterText = <<>>
    /\ sel.items = sel.allItems
    /\ ~sel.quitting

(***************************************************************************)
(* C39: the result of the profile selector.  choice and isNew are never    *)
(* both set; choice is set only by Enter on a role item (to its profile)   *)
(* or on an account that has exactly one role (to that role), isNew only   *)
(* by Enter on "configure new"; a chosen profile is one of the profiles    *)
(* handed in; after quitting with q, Escape or Ctrl-C both are unset and   *)
(* RunProfileSelector returns the error "no profile selected".             *)
(***************************************************************************)
C39_ChoiceAndIsNew ==
    /\ [](sel.kind = "profile" =>
            /\ ~(sel.choice # <<>> /\ sel.isNew)
            /\ (sel.choice # <<>> =>
                   \E i \in DOMAIN sel.profiles : sel.choice = <<sel.profiles[i]>>)
            /\ ((sel.quitting /\ sel.key \in {"q", "esc", "ctrl+c"}) =>
                   /\ sel.choice = <<>>
                   /\ ~sel.isNew
                   /\ (sel.ret.st # "running" =>
                          sel.ret = [Running EXCEPT !.st = "err",
                                                    !.err = "no profile selected"]))
            /\ (sel.ret.st = "ok" =>
                   /\ sel.ret.Profile = sel.choice
                   /\ sel.ret.IsNew = sel.isNew
                   /\ (sel.choice # <<>> \/ sel.isNew)))
    /\ [][(sel.kind = "profile" /\ sel'.choice # sel.choice) =>
             /\ sel'.key = "enter"
             /\ sel.cursor \in DOMAIN sel.items
             /\ LET item == sel.items[sel.cursor]
                IN  \/ item.kind = "role" /\ sel'.choice = item.profile
                    \/ /\ item.kind = "account"
                       /\ Len(sel.groups[item.ref].Roles) = 1
                       /\ sel'.choice = <<sel.groups[item.ref].Roles[1]>>]_vars
    /\ [][(sel.kind = "profile" /\ sel'.isNew # sel.isNew) =>
             /\ sel'.key = "enter"
             /\ sel.cursor \in DOMAIN sel.items
             /\ sel.items[sel.cursor].kind = "new"
             /\ sel'.isNew]_vars

\* A role of the account drilled into was chosen and returned.
C39_Witness ==
    /\ sel.kind = "profile"
    /\ sel.ret.st = "ok"
    /\ sel.level = "roles"
    /\ sel.choice # <<>>
    /\ sel.ret.Profile = sel.choice
    /\ ~sel.isNew

(***************************************************************************)
(* C37: the import selector.  It starts with every entry checked.  Space   *)
(* toggles the highlighted entry and no other, with or without a filter;   *)
(* with no filter text a checks all entries and n unchecks all; editing    *)
(* the filter and moving the cursor leave the checks alone.  Enter returns *)
(* exactly the checked entries, in the order they were discovered, each    *)
(* with the name allocated to it.  The selector returns an error when it   *)
(* is handed no entry, when the user cancels, and when no entry is checked *)
(* at Enter.                                                               *)
(***************************************************************************)
C37_ImportSelection ==
    /\ [](sel.kind = "import" =>
            /\ (sel.key = "" => \A i \in DOMAIN sel.discovered : sel.checked[i])
            /\ (sel.discovered = <<>> =>
                   sel.ret = [Running EXCEPT !.st = "err", !.err = "no profiles to import"])
            /\ (sel.ret.st = "ok" =>
                   /\ sel.confirmed
                   /\ sel.key = "enter"
                   /\ \E pos \in [DOMAIN sel.ret.selected -> DOMAIN sel.discovered] :
                         /\ \A k \in DOMAIN pos : sel.ret.selected[k] = sel.discovered[pos[k]]
                         /\ \A k, l \in DOMAIN pos : k < l => pos[k] < pos[l]
                         /\ {pos[k] : k \in DOMAIN pos}
                              = {i \in DOMAIN sel.discovered : sel.checked[i]}
                   /\ sel.ret.selected # <<>>)
            /\ ((sel.ret.st # "running" /\ sel.cancelled) =>
                   sel.ret = [Running EXCEPT !.st = "err",
                                             !.err = "import selection cancelled"])
            /\ ((/\ sel.ret.st # "running"
                 /\ sel.confirmed
                 /\ \A i \in DOMAIN sel.discovered : ~sel.checked[i]) =>
                   sel.ret = [Running EXCEPT !.st = "err", !.err = "no profiles selected"]))
    /\ [][(/\ sel.kind = "import"
           /\ sel' # sel
           /\ sel'.ret = sel.ret) =>
             \A i \in DOMAIN sel.discovered :
                sel'.checked[i] =
                   CASE sel'.key = "space" ->
                          IF /\ sel.cursor \in DOMAIN sel.items
                             /\ sel.items[sel.cursor] = sel.allItems[i]
                          THEN ~sel.checked[i] ELSE sel.checked[i]
                     [] sel'.key = "a" /\ sel.filterText = <<>> -> TRUE
                     [] sel'.key = "n" /\ sel.filterText = <<>> -> FALSE
                     [] OTHER -> sel.checked[i]]_vars

\* Under a filter the second entry of three was unchecked, and Enter
\* returned the first and the third.
C37_Witness ==
    /\ sel.kind = "import"
    /\ sel.ret.st = "ok"
    /\ sel.filterText # <<>>
    /\ Len(sel.discovered) = 3
    /\ Len(sel.items) < 3
    /\ sel.checked = <<TRUE, FALSE, TRUE>>
    /\ sel.ret.selected = <<sel.discovered[1], sel.discovered[3]>>

====
